---- MODULE Spec2Model ----
(***************************************************************************)
(* Verification model of the vishpro-extension action orchestrator:        *)
(*   - the multi-turn loop (executeMultiTurn) in its three source variants *)
(*   - the action executor (executeAction / validateParams)                *)
(*   - the model-cascade client (generate, shouldSkip, recordError)        *)
(***************************************************************************)
EXTENDS Integers, Sequences, FiniteSets, TLC

VARIABLES
  \* ---- multi-turn loop (executeMultiTurn) ----
  variant,         \* which executeMultiTurn: "single" | "serial" | "choice"
  stop_action,     \* choice.stop_action
  max_iterations,  \* choice.max_iterations
  conversation,    \* the persisted conversation (Seq of messages)
  view,            \* the messages handed to generate in the latest model call
  i,               \* loop counter of the for loop
  pc,              \* "turn" | "exec" | "synth" | "returned" | "threw" | "idle"
  toolCalls,       \* llmResponse.tool_calls of the current turn
  k,               \* index (1-based) of the tool call being executed
  nextId,          \* next fresh tool_call id handed out by the model
  modelCalls,      \* number of generate() calls made by the loop
  stopRuns,        \* executeAction(stop action) invocations made inside turns
  synthRuns,       \* executeAction(stop action) invocations made on exhaustion
  toolRuns,        \* executeAction invocations of non-stop actions
  stopResult,      \* result of the stop-action execution that ended the loop
  retval,          \* value returned to the caller
  thrown,          \* kind of the error that left the loop
  \* ---- action executor (executeAction) ----
  action,          \* the action being executed
  params,          \* its params
  apc,             \* "start" | "step" | "done" | "failed" | "idle"
  stepIdx,         \* index i of the for loop over action.steps (0-based)
  result,          \* the local variable result
  stepLog,         \* one entry per started step: [idx, prev, outcome]
  aerror,          \* the error thrown by executeAction
  \* ---- model cascade (generate) ----
  client,          \* "map" (llm.js) | "counter" (llm/index.js + llm/models.js)
  requested,       \* the intelligence argument of the current generate call
  models,          \* configured tiers: level -> Seq of model ids
  stats,           \* per model: [error, skip, success, recent]
  gpc,             \* "ready" | "primary" | "fallback" | "idle"
  cascadingModels, \* the entries of the primary pass
  sortedModels,    \* the entries of the fallback pass
  pos,             \* position in the pass being walked (1-based)
  failing,         \* the set of models whose endpoint fails (failure injector)
  attempts,        \* requests sent in the current generate call, in order
  skipped,         \* models skipped by the back-off gate in the current call
  startStats,      \* stats at the start of the current generate call
  sortStats,       \* stats at the moment the fallback order was computed
  outcome,         \* result of the last generate call
  \* ---- health counter (TimeBucketCounter) ----
  data,            \* this.data: (key, counter) -> buckets of the three tiers
  loaded,          \* this.loaded
  stored,          \* the value held by the storage under storageKey
  now,             \* Date.now(), in seconds
  tasks,           \* the increment calls in flight: task -> [pc, key, counter, amount, snap]
  ticks,           \* number of clock advances made
  incLog,          \* the increments applied so far: Seq of [key, counter, at, amount]
  clobbered,       \* a load has replaced data that was loaded already
  reads,           \* the number of getStats calls that returned
  \* ---- action registry (allActions, actionsRegistry) ----
  build,           \* the registry being walked
  wpc,             \* "action" | "step" | "choice" | "refs" | "done" | "idle"
  wAction,         \* position in allActions (1-based)
  wStep,           \* position in action.steps (1-based)
  wRef,            \* position in tool_choice.available_actions (1-based)
  failed,          \* the assertions that failed so far
  \* ---- model verification and request construction ----
  apiKey,          \* TRUE when an API key is configured
  vpc,             \* "ready" | "probe1" | "probe2" | "verified" | "idle"
  vmodel,          \* [model, providers]: the arguments of verifyModel
  probes,          \* the probe requests sent by the current verifyModel call
  firstError,      \* the error message of the first probe, when rejected
  verdict,         \* the value returned by verifyModel
  llmModels,       \* the configured entries: Seq of [model, only, opts]
  requests,        \* the chat-completions requests built by callAPI
  \* ---- one step of an action (executeStep, withTimeout) ----
  sVariant,        \* which executor runs the step: "single" | "serial" | "choice"
  sStep,           \* the step handed to executeStep
  spc,             \* "ready" | "step" | "model" | "tool" | "sub" | "resolved" | "failed" | "idle"
  sClock,          \* seconds since executeStep was called
  sDeadline,       \* <<t>> while a withTimeout timer is armed for time t, else <<>>
  sTurn,           \* loop counter of the multi-turn loop run by the step
  sError,          \* the error that leaves the outer executeAction
  sRunning,        \* the sub-actions the loop started whose promise has not settled
  \* ---- template rendering (renderTemplate) ----
  rTemplate,       \* the template being rendered: Seq of text pieces and tags
  context,         \* the context object handed to renderTemplate
  renderings,      \* the renderings made so far: Seq of [context, output]
  \* ---- concurrent generate calls at the back-off gate of one model ----
  gateClient,      \* the client (map or counter)
  health,          \* the recorded error, skip and success totals of the model
  callers,         \* generate call -> [pc, errors, skips] (the totals its gate has read)
  \* ---- the side panel ----
  messageInput,    \* the text of the message input
  sendDisabled,    \* the send button is disabled
  messageHistory,  \* the messages sent, without immediate repeats
  preparing,       \* sendMessage calls that have not yet sent their request
  inFlight,        \* processMessage requests awaiting their response
  responses        \* responses shown in the panel

loopVars == <<variant, stop_action, max_iterations, conversation, view, i, pc,
              toolCalls, k, nextId, modelCalls, stopRuns, synthRuns, toolRuns,
              stopResult, retval, thrown>>
actVars  == <<action, params, apc, stepIdx, result, stepLog, aerror>>
casVars  == <<client, requested, models, stats, gpc, cascadingModels, sortedModels, pos, failing, attempts,
              skipped, startStats, sortStats, outcome>>
cntVars  == <<data, loaded, stored, now, tasks, ticks, incLog, clobbered, reads>>
regVars  == <<build, wpc, wAction, wStep, wRef, failed>>
verVars  == <<apiKey, vpc, vmodel, probes, firstError, verdict, llmModels, requests>>
stepVars == <<sVariant, sStep, spc, sClock, sDeadline, sTurn, sError, sRunning>>
renVars == <<rTemplate, context, renderings>>
gateVars == <<gateClient, health, callers>>
chatVars == <<messageInput, sendDisabled, messageHistory, preparing, inFlight, responses>>
vars     == <<loopVars, actVars, casVars, cntVars, regVars, verVars, stepVars, renVars, gateVars, chatVars>>

nonLoopVars == <<actVars, casVars, cntVars, regVars, verVars, stepVars, renVars, gateVars, chatVars>>
nonActVars  == <<loopVars, casVars, cntVars, regVars, verVars, stepVars, renVars, gateVars, chatVars>>
nonCasVars  == <<loopVars, actVars, cntVars, regVars, verVars, stepVars, renVars, gateVars, chatVars>>
nonCntVars  == <<loopVars, actVars, casVars, regVars, verVars, stepVars, renVars, gateVars, chatVars>>
nonRegVars  == <<loopVars, actVars, casVars, cntVars, verVars, stepVars, renVars, gateVars, chatVars>>
nonVerVars  == <<loopVars, actVars, casVars, cntVars, regVars, stepVars, renVars, gateVars, chatVars>>
nonStepVars == <<loopVars, actVars, casVars, cntVars, regVars, verVars, renVars, gateVars, chatVars>>
nonRenVars == <<loopVars, actVars, casVars, cntVars, regVars, verVars, stepVars, gateVars, chatVars>>
nonGateVars == <<loopVars, actVars, casVars, cntVars, regVars, verVars, stepVars, renVars, chatVars>>
nonChatVars == <<loopVars, actVars, casVars, cntVars, regVars, verVars, stepVars, renVars, gateVars>>

(***************************************************************************)
(* Bounds                                                                  *)
(***************************************************************************)
MaxIter  == 2     \* largest max_iterations explored
MaxCalls == 2     \* largest number of tool calls in one model response

(***************************************************************************)
(* Values: JavaScript runtime kinds of parameter values                    *)
(***************************************************************************)
Kinds == {"string", "number", "boolean", "array", "object", "null", "undefined"}

\* A step result / stop result.  Fields hold "ABSENT" when not present.
ABSENT == "ABSENT"
Res(type, str, message, response) ==
  [type |-> type, str |-> str, message |-> message, response |-> response]
NullResult == Res("null", ABSENT, ABSENT, ABSENT)

\* A value handed back to the caller of the loop.
Ret(kind, text, of) == [kind |-> kind, text |-> text, of |-> of]
NoRet == Ret("none", ABSENT, NullResult)

(***************************************************************************)
(* validateParams                                                          *)
(***************************************************************************)
\* the typeof / Array.isArray test made for a declared type
TypeMatches(kind, t) ==
  CASE t = "string"  -> kind = "string"
    [] t = "number"  -> kind = "number"
    [] t = "boolean" -> kind = "boolean"
    [] t = "array"   -> kind = "array"
    [] t = "object"  -> kind \in {"object", "null"}
    [] OTHER         -> TRUE

Present(p, field) == field \in DOMAIN p /\ p[field] # "undefined"

\* mutant: only the required fields are checked
validateParams_IgnoresTypes(p, schema) ==
  {<<"missing", f>> : f \in {g \in schema.required : ~Present(p, g)}}

validateParams(p, schema) ==
  {<<"missing", f>> : f \in {g \in schema.required : ~Present(p, g)}}
  \cup
  {<<"type", key>> : key \in {g \in DOMAIN schema.properties :
                          Present(p, g) /\ ~TypeMatches(p[g], schema.properties[g])}}

Valid(p, schema) == validateParams(p, schema) = {}

(***************************************************************************)
(* Action registry (input schemas of the registered actions)               *)
(***************************************************************************)
Schema(props, req) == [declared |-> TRUE, properties |-> props, required |-> req]
ActionDef(name, schema, nsteps) == [name |-> name, input_schema |-> schema, steps |-> nsteps]

FINAL_RESPONSE == "FINAL_RESPONSE"
SUMMARY_TOOL   == "SUMMARY_TOOL"
CHAT_RESPONSE  == "CHAT_RESPONSE"
READ_PAGE      == "READ_PAGE"
FILL_FORM      == "FILL_FORM"

finalResponseAction ==
  ActionDef(FINAL_RESPONSE, Schema(("justification" :> "string"), {"justification"}), 2)

summaryAction ==
  ActionDef(SUMMARY_TOOL,
            Schema(("justification" :> "string") @@ ("user_intent" :> "string"),
                   {"justification"}), 2)

chatAction ==
  ActionDef(CHAT_RESPONSE,
            Schema(("user_message" :> "string") @@ ("instructions" :> "string") @@
                   ("justification" :> "string") @@ ("notes" :> "string") @@
                   ("conversation_history" :> "string"),
                   {"user_message"}), 1)

readPageAction ==
  ActionDef(READ_PAGE,
            Schema(("tabId" :> "number") @@ ("justification" :> "string"), {"tabId"}), 1)

fillFormAction ==
  ActionDef(FILL_FORM,
            Schema(("tabId" :> "number") @@ ("form_fields" :> "array") @@
                   ("submit" :> "boolean") @@ ("submit_element_id" :> "number") @@
                   ("justification" :> "string"),
                   {"tabId", "form_fields"}), 1)

actionsRegistry ==
  (FINAL_RESPONSE :> finalResponseAction) @@ (SUMMARY_TOOL :> summaryAction) @@
  (CHAT_RESPONSE :> chatAction) @@ (READ_PAGE :> readPageAction) @@
  (FILL_FORM :> fillFormAction)

\* the stop actions the registered tool_choice / choice declarations name
StopActionsOf(v) ==
  IF v = "choice" THEN {CHAT_RESPONSE} ELSE {FINAL_RESPONSE, SUMMARY_TOOL}

pickParams(source, actionDef) ==
  [key \in (DOMAIN actionDef.input_schema.properties) \cap (DOMAIN source) |-> source[key]]

(***************************************************************************)
(* unwrapStopResult                                                        *)
(***************************************************************************)
Truthy(field) == field # ABSENT /\ field # ""

\* mutant: the response field is preferred to the message field
unwrapStopResult_ResponseFirst(r) ==
  IF r.type = "string" THEN Ret("string", r.str, NullResult)
  ELSE IF r.type = "object" /\ Truthy(r.response) THEN Ret("string", r.response, NullResult)
  ELSE IF r.type = "object" /\ Truthy(r.message) THEN Ret("string", r.message, NullResult)
  ELSE Ret("json", ABSENT, r)
unwrapStopResult(r) ==
  IF r.type = "string" THEN Ret("string", r.str, NullResult)
  ELSE IF r.type = "object" /\ Truthy(r.message) THEN Ret("string", r.message, NullResult)
  ELSE IF r.type = "object" /\ Truthy(r.response) THEN Ret("string", r.response, NullResult)
  ELSE Ret("json", ABSENT, r)

\* the orchestrator executor returns the stop action's result as it is
RawResult(r) == Ret("raw", ABSENT, r)

ReturnValue(v, r) == IF v = "choice" THEN RawResult(r) ELSE unwrapStopResult(r)

\* results a stop action's last step can produce
StopResults ==
  { Res("string", "hi", ABSENT, ABSENT),
    Res("object", ABSENT, "msg", ABSENT),
    Res("object", ABSENT, ABSENT, "resp"),
    Res("object", ABSENT, "msg", "resp"),
    Res("object", ABSENT, "", "resp"),
    Res("object", ABSENT, ABSENT, ABSENT) }

(***************************************************************************)
(* Conversation                                                            *)
(***************************************************************************)
Msg(role, content, calls, tcid) ==
  [role |-> role, content |-> content, tool_calls |-> calls, tool_call_id |-> tcid]

SystemMsg        == Msg("system", "system_prompt", <<>>, 0)
UserMsg(content) == Msg("user", content, <<>>, 0)
TextMsg(content) == Msg("assistant", content, <<>>, 0)
AssistantCalls(ids, content) == Msg("assistant", content, ids, 0)
ToolMsg(id, content) == Msg("tool", content, <<>>, id)

Ids(calls) == [j \in 1..Len(calls) |-> calls[j].id]

\* conversation.splice(2, conversation.length - keep) when length > limit
Prune(conv, limit, keep) ==
  IF Len(conv) > limit
    THEN SubSeq(conv, 1, 2) \o SubSeq(conv, Len(conv) - (keep - 2) + 1, Len(conv))
    ELSE conv

\* mutant: the tool-call loops prune with the thresholds of the choice loop
PruneToolLoop_AsChoice(conv) == Prune(conv, 10, 8)
PruneToolLoop(conv) == Prune(conv, 12, 10)   \* executor.js
PruneChoice(conv)   == Prune(conv, 10, 8)    \* orchestrator/executor.js

\* { role: 'user', content: `Current Browser State:...` }
BrowserMsg == UserMsg("browser_state")

\* copy.findLastIndex(m => m.role === 'user'), counted from 1; 0 when none
LastUserIdx(conv) ==
  LET users == {j \in 1..Len(conv) : conv[j].role = "user"} IN
  IF users = {} THEN 0 ELSE CHOOSE j \in users : \A l \in users : l <= j

\* the copy with the browser state before the last user message, or at the
\* end when there is no user message after the first position
WithBrowserState(conv) ==
  LET p == LastUserIdx(conv) IN
  IF p > 1
    THEN SubSeq(conv, 1, p - 1) \o <<BrowserMsg>> \o SubSeq(conv, p, Len(conv))
    ELSE Append(conv, BrowserMsg)

\* mutant: the browser state is spliced into the conversation itself
insertBrowserState_InPlace(conv) ==
  [view |-> WithBrowserState(conv), conversation |-> WithBrowserState(conv)]

\* insertBrowserState(conversation): the value returned (view) and the
\* argument as the call leaves it (conversation)
insertBrowserState(conv) ==
  [view |-> WithBrowserState(conv), conversation |-> conv]

(***************************************************************************)
(* What the model can send                                                 *)
(***************************************************************************)
EmptyObj == [key \in {} |-> "undefined"]
GoodArgs == [wellFormed |-> TRUE,
             obj |-> ("justification" :> "string") @@ ("tabId" :> "number") @@
                     ("user_message" :> "string")]
BadArgs  == [wellFormed |-> TRUE, obj |-> ("tabId" :> "string")]
Malformed == [wellFormed |-> FALSE, obj |-> EmptyObj]
ArgObjects == {GoodArgs, BadArgs, Malformed}

NO_SUCH_ACTION == "NO_SUCH_ACTION"
ToolNames == {stop_action, READ_PAGE, NO_SUCH_ACTION}

ToolCall(id, name, arguments) == [id |-> id, name |-> name, arguments |-> arguments]

\* a tool call of the response whose name and arguments have not been read yet
UNREAD == "UNREAD"
UnreadCall(id) == ToolCall(id, UNREAD, Malformed)

\* the (name, arguments) pairs a tool call of the model can carry; malformed
\* JSON is detected before the name is used and an unknown name before the
\* arguments are, so one representative of each is kept
CallShapes ==
  { <<n, a>> : n \in {stop_action, READ_PAGE}, a \in {GoodArgs, BadArgs} }
  \cup { <<READ_PAGE, Malformed>>, <<NO_SUCH_ACTION, GoodArgs>> }

\* the params executeAction receives for tool call c
ActionParams(c) ==
  LET picked == pickParams(c.arguments.obj, actionsRegistry[c.name]) IN
  IF c.name = stop_action
    THEN IF variant = "choice"
           THEN ("conversation_history" :> "string") @@ picked
           ELSE ("messages" :> "string") @@ picked
    ELSE picked

\* the params of the stop-action call made when the iterations are exhausted
ExhaustParams ==
  IF variant = "choice"
    THEN ("response" :> "string")
    ELSE ("response" :> "string") @@ ("messages" :> "string")

(***************************************************************************)
(* executeMultiTurn                                                        *)
(***************************************************************************)
Variants == {"single", "serial", "choice"}
\*  "single": modules/executor.js          (runs tool_calls[0] only)
\*  "serial": modules/time-bucket-counter.js executeMultiTurn (runs all, breaks on error)
\*  "choice": modules/orchestrator/executor.js (schema-based choice, no tool messages)

\* the loops that answer tool calls with tool messages
ToolLoop == variant \in {"single", "serial"}

IdleLoop ==
  /\ variant = "serial" /\ stop_action = FINAL_RESPONSE /\ max_iterations = 1
  /\ conversation = <<>> /\ view = <<>> /\ i = 0 /\ pc = "idle" /\ toolCalls = <<>> /\ k = 0
  /\ nextId = 1 /\ modelCalls = 0 /\ stopRuns = 0 /\ synthRuns = 0 /\ toolRuns = 0
  /\ stopResult = NullResult /\ retval = NoRet /\ thrown = "none"

InitLoop ==
  /\ variant \in Variants
  /\ stop_action \in StopActionsOf(variant)
  /\ max_iterations \in 1..MaxIter
  /\ conversation = <<SystemMsg, UserMsg("initial")>> /\ view = <<>>
  /\ i = 0 /\ pc = "turn" /\ toolCalls = <<>> /\ k = 0 /\ nextId = 1
  /\ modelCalls = 0 /\ stopRuns = 0 /\ synthRuns = 0 /\ toolRuns = 0
  /\ stopResult = NullResult /\ retval = NoRet /\ thrown = "none"

\* bookkeeping of an executeAction invocation for tool call c
CountRun(c) ==
  /\ stopRuns' = IF c.name = stop_action THEN stopRuns + 1 ELSE stopRuns
  /\ toolRuns' = IF c.name = stop_action THEN toolRuns ELSE toolRuns + 1

NoRun == UNCHANGED <<stopRuns, toolRuns>>

\* `continue` / end of the loop body: next iteration
NextTurn(conv) ==
  /\ conversation' = conv
  /\ i' = i + 1
  /\ pc' = "turn"
  /\ toolCalls' = <<>>
  /\ k' = 0

\* mutant: the loop runs one iteration too many
LoopCondition_OffByOne == i <= max_iterations

\* the loop condition  i < max_iterations
LoopCondition == i < max_iterations

\* mutant: the error of the model call is swallowed and the next turn runs
ModelFails_Swallowed ==
  /\ pc = "turn" /\ LoopCondition
  /\ modelCalls' = modelCalls + 1
  /\ view' = insertBrowserState(conversation).view
  /\ NextTurn(insertBrowserState(conversation).conversation)
  /\ UNCHANGED <<variant, stop_action, max_iterations,
                 nextId, stopRuns, synthRuns, toolRuns, stopResult, retval, thrown>>
  /\ UNCHANGED nonLoopVars

\* generate() rejects or LLM_TIMEOUT_MS elapses: the error leaves the loop
ModelFails ==
  /\ pc = "turn" /\ LoopCondition
  /\ modelCalls' = modelCalls + 1
  /\ view' = insertBrowserState(conversation).view
  /\ conversation' = insertBrowserState(conversation).conversation
  /\ pc' = "threw"
  /\ \E e \in {"ProviderError", "Timeout"} : thrown' = e
  /\ UNCHANGED <<variant, stop_action, max_iterations, i, toolCalls, k,
                 nextId, stopRuns, synthRuns, toolRuns, stopResult, retval>>
  /\ UNCHANGED nonLoopVars

\* mutant: a text response does not use up an iteration
ModelReturnsText_FreeTurn ==
  /\ pc = "turn" /\ LoopCondition
  /\ variant \in {"single", "serial"}
  /\ modelCalls < MaxIter
  /\ modelCalls' = modelCalls + 1
  /\ view' = insertBrowserState(conversation).view
  /\ conversation' = insertBrowserState(conversation).conversation
                       \o <<TextMsg("text"), UserMsg("reminder")>>
  /\ UNCHANGED <<variant, stop_action, max_iterations, i, pc, toolCalls, k, nextId,
                 stopRuns, synthRuns, toolRuns, stopResult, retval, thrown>>
  /\ UNCHANGED nonLoopVars

\* the response carries no tool_calls (tool-call variants only)
ModelReturnsText ==
  /\ pc = "turn" /\ LoopCondition
  /\ variant \in {"single", "serial"}
  /\ modelCalls' = modelCalls + 1
  /\ view' = insertBrowserState(conversation).view
  /\ NextTurn(insertBrowserState(conversation).conversation
                \o <<TextMsg("text"), UserMsg("reminder")>>)
  /\ UNCHANGED <<variant, stop_action, max_iterations, nextId, stopRuns, synthRuns,
                 toolRuns, stopResult, retval, thrown>>
  /\ UNCHANGED nonLoopVars

\* synchronous handling of tool call j of calls, up to the next await:
\* either the call is answered with an error and the per-call loop breaks
\* (k = 0), or executeAction is started for it (k = j)
SerialScan(conv, calls, j) ==
  IF j > Len(calls) THEN [conv |-> conv, k |-> 0]
  ELSE IF ~calls[j].arguments.wellFormed
    THEN [conv |-> Append(conv, ToolMsg(calls[j].id, "err_json")), k |-> 0]
  ELSE IF calls[j].name \notin DOMAIN actionsRegistry
    THEN [conv |-> Append(conv, ToolMsg(calls[j].id, "err_notfound")), k |-> 0]
  ELSE [conv |-> conv, k |-> j]

\* the content of tool call j is looked at (it is fixed when the response
\* arrives, but nothing depends on it before this point)
ReadCall(calls, j, shape) ==
  [calls EXCEPT ![j] = ToolCall(calls[j].id, shape[1], shape[2])]

\* time-bucket-counter.js:469-508: continue the burst from call j
SerialAdvance(conv, calls, j) ==
  IF j > Len(calls)
    THEN NextTurn(PruneToolLoop(conv)) /\ NoRun
    ELSE \E shape \in CallShapes :
           LET read == ReadCall(calls, j, shape)
               s == SerialScan(conv, read, j) IN
           IF s.k = 0
             THEN NextTurn(PruneToolLoop(s.conv)) /\ NoRun
             ELSE /\ conversation' = s.conv /\ k' = s.k /\ pc' = "exec"
                  /\ toolCalls' = read /\ i' = i
                  /\ CountRun(read[s.k])

\* executor.js:173-214: only tool_calls[0] is looked at
SingleStart(conv, calls) ==
  \E shape \in CallShapes :
    LET read == ReadCall(calls, 1, shape)
        c == read[1]
        withAssistant == Append(conv, AssistantCalls(Ids(calls), "tool_calls")) IN
    IF ~c.arguments.wellFormed
      THEN NextTurn(Append(conv, ToolMsg(c.id, "err_json"))) /\ NoRun
    ELSE IF c.name \notin DOMAIN actionsRegistry
      THEN NextTurn(Append(withAssistant, ToolMsg(c.id, "err_notfound"))) /\ NoRun
    ELSE /\ conversation' = withAssistant /\ k' = 1 /\ pc' = "exec"
         /\ toolCalls' = read /\ i' = i
         /\ CountRun(c)

\* the response carries tool_calls
ModelReturnsToolCalls ==
  /\ pc = "turn" /\ LoopCondition
  /\ variant \in {"single", "serial"}
  /\ modelCalls' = modelCalls + 1
  /\ view' = insertBrowserState(conversation).view
  /\ \E n \in 1..MaxCalls :
       LET calls == [j \in 1..n |-> UnreadCall(nextId + j - 1)]
           conv == insertBrowserState(conversation).conversation IN
       /\ nextId' = nextId + n
       /\ IF variant = "single"
            THEN SingleStart(conv, calls)
            ELSE SerialAdvance(
                   Append(conv, AssistantCalls(Ids(calls), "tool_calls")),
                   calls, 1)
  /\ UNCHANGED <<variant, stop_action, max_iterations, synthRuns, stopResult, retval, thrown>>
  /\ UNCHANGED nonLoopVars

\* orchestrator/executor.js:198-251: the model returns one choice object
ModelReturnsChoice ==
  /\ pc = "turn" /\ LoopCondition
  /\ variant = "choice"
  /\ modelCalls' = modelCalls + 1
  /\ view' = insertBrowserState(conversation).view
  /\ \E shape \in {sh \in CallShapes : sh[2].wellFormed} :
       LET name == shape[1]
           c == ToolCall(nextId, name, shape[2])
           conv == Append(insertBrowserState(conversation).conversation, TextMsg("choice")) IN
       /\ nextId' = nextId + 1
       /\ conversation' = conv
       /\ i' = i
       /\ IF name \notin DOMAIN actionsRegistry
            THEN /\ pc' = "threw" /\ thrown' = "NotFound"
                 /\ toolCalls' = <<>> /\ k' = 0 /\ NoRun
            ELSE /\ pc' = "exec" /\ thrown' = thrown
                 /\ toolCalls' = <<c>> /\ k' = 1 /\ CountRun(c)
  /\ UNCHANGED <<variant, stop_action, max_iterations, synthRuns, stopResult, retval>>
  /\ UNCHANGED nonLoopVars

\* the tool call whose executeAction is awaited, its action and its params
CurrentCall   == toolCalls[k]
TargetAction  == actionsRegistry[CurrentCall.name]
CurrentValid  == Valid(ActionParams(CurrentCall), TargetAction.input_schema)

\* mutant: after a validation error the remaining tool calls are still run
ToolCallInvalid_KeepsGoing ==
  /\ pc = "exec"
  /\ ~CurrentValid
  /\ CASE variant = "choice" ->
            NextTurn(Append(conversation, UserMsg("v3_validation"))) /\ NoRun
       [] variant = "single" ->
            NextTurn(PruneToolLoop(
              Append(conversation, ToolMsg(CurrentCall.id, "err_validation")))) /\ NoRun
       [] variant = "serial" ->
            SerialAdvance(Append(conversation, ToolMsg(CurrentCall.id, "err_validation")),
                          toolCalls, k + 1)
  /\ UNCHANGED <<view, variant, stop_action, max_iterations, nextId, modelCalls,
                 synthRuns, stopResult, retval, thrown>>
  /\ UNCHANGED nonLoopVars

\* executeAction rejects with isValidationError: the error is fed back
ToolCallInvalid ==
  /\ pc = "exec"
  /\ ~CurrentValid
  /\ IF variant = "choice"
       THEN NextTurn(Append(conversation, UserMsg("v3_validation")))
       ELSE NextTurn(PruneToolLoop(
              Append(conversation, ToolMsg(CurrentCall.id, "err_validation"))))
  /\ UNCHANGED <<view, variant, stop_action, max_iterations, nextId, modelCalls, stopRuns,
                 synthRuns, toolRuns, stopResult, retval, thrown>>
  /\ UNCHANGED nonLoopVars

\* mutant: an error of a sub-action leaves the loop in every variant
ToolCallThrows_Propagates ==
  /\ pc = "exec"
  /\ CurrentValid
  /\ pc' = "threw" /\ thrown' = "StepError"
  /\ UNCHANGED <<conversation, i, toolCalls, k>>
  /\ UNCHANGED <<view, variant, stop_action, max_iterations, nextId, modelCalls, stopRuns,
                 synthRuns, toolRuns, stopResult, retval>>
  /\ UNCHANGED nonLoopVars

\* a step of the sub-action throws, or (serial variant) STEP_TIMEOUT_MS elapses
ToolCallThrows ==
  /\ pc = "exec"
  /\ CurrentValid
  /\ IF variant = "choice"
       THEN /\ pc' = "threw" /\ thrown' = "StepError"
            /\ UNCHANGED <<conversation, i, toolCalls, k>>
       ELSE /\ NextTurn(PruneToolLoop(
                 Append(conversation, ToolMsg(CurrentCall.id, "err_other"))))
            /\ thrown' = thrown
  /\ UNCHANGED <<view, variant, stop_action, max_iterations, nextId, modelCalls, stopRuns,
                 synthRuns, toolRuns, stopResult, retval>>
  /\ UNCHANGED nonLoopVars

\* a non-stop sub-action returns its result
ToolCallSucceeds ==
  /\ pc = "exec"
  /\ CurrentValid
  /\ CurrentCall.name # stop_action
  /\ CASE variant = "choice" ->
            NextTurn(PruneChoice(Append(conversation, UserMsg("v3_result")))) /\ NoRun
       [] variant = "single" ->
            NextTurn(PruneToolLoop(
              Append(conversation, ToolMsg(CurrentCall.id, "result")))) /\ NoRun
       [] variant = "serial" ->
            SerialAdvance(Append(conversation, ToolMsg(CurrentCall.id, "result")),
                          toolCalls, k + 1)
  /\ UNCHANGED <<view, variant, stop_action, max_iterations, nextId, modelCalls,
                 synthRuns, stopResult, retval, thrown>>
  /\ UNCHANGED nonLoopVars

\* mutant: a successful stop action is treated like any other tool
StopSucceeds_Continues ==
  /\ pc = "exec"
  /\ CurrentValid
  /\ CurrentCall.name = stop_action
  /\ \E r \in StopResults :
       /\ stopResult' = r
       /\ retval' = retval
  /\ NextTurn(PruneToolLoop(Append(conversation, ToolMsg(CurrentCall.id, "result"))))
  /\ UNCHANGED <<view, variant, stop_action, max_iterations,
                 nextId, modelCalls, stopRuns, synthRuns, toolRuns, thrown>>
  /\ UNCHANGED nonLoopVars

\* the stop action returns: the loop returns
StopSucceeds ==
  /\ pc = "exec"
  /\ CurrentValid
  /\ CurrentCall.name = stop_action
  /\ \E r \in StopResults :
       /\ stopResult' = r
       /\ retval' = ReturnValue(variant, r)
  /\ pc' = "returned"
  /\ UNCHANGED <<view, variant, stop_action, max_iterations, conversation, i, toolCalls, k,
                 nextId, modelCalls, stopRuns, synthRuns, toolRuns, thrown>>
  /\ UNCHANGED nonLoopVars

\* the for loop ends: the synthetic stop call is made
ExhaustBegin ==
  /\ pc = "turn" /\ ~LoopCondition
  /\ IF variant = "choice"
       THEN UNCHANGED <<conversation, nextId>>
       ELSE /\ conversation' = Append(conversation,
                                      AssistantCalls(<<nextId>>, "synthetic_stop"))
            /\ nextId' = nextId + 1
  /\ synthRuns' = synthRuns + 1
  /\ pc' = "synth"
  /\ UNCHANGED <<view, variant, stop_action, max_iterations, i, toolCalls, k, modelCalls,
                 stopRuns, toolRuns, stopResult, retval, thrown>>
  /\ UNCHANGED nonLoopVars

\* executeAction(actionsRegistry[stop_action], {response, messages}) settles
ExhaustSettles ==
  /\ pc = "synth"
  /\ IF ~Valid(ExhaustParams, actionsRegistry[stop_action].input_schema)
       THEN /\ pc' = "threw" /\ thrown' = "Validation"
            /\ UNCHANGED <<stopResult, retval>>
       ELSE \/ \E r \in StopResults :
                 /\ stopResult' = r /\ retval' = ReturnValue(variant, r)
                 /\ pc' = "returned" /\ thrown' = thrown
            \/ /\ pc' = "threw" /\ thrown' = "StepError"
               /\ UNCHANGED <<stopResult, retval>>
  /\ UNCHANGED <<view, variant, stop_action, max_iterations, conversation, i, toolCalls, k,
                 nextId, modelCalls, stopRuns, synthRuns, toolRuns>>
  /\ UNCHANGED nonLoopVars

IdleAct ==
  /\ action = finalResponseAction /\ params = EmptyObj /\ apc = "idle"
  /\ stepIdx = 0 /\ result = NullResult /\ stepLog = <<>> /\ aerror = "none"

IdleCas ==
  /\ client = "map" /\ requested = "none" /\ models = <<>> /\ stats = <<>> /\ gpc = "idle"
  /\ cascadingModels = <<>> /\ sortedModels = <<>> /\ pos = 0
  /\ failing = {} /\ attempts = <<>> /\ skipped = {}
  /\ startStats = <<>> /\ sortStats = <<>> /\ outcome = "none"

IdleCnt ==
  /\ data = <<>> /\ loaded = FALSE /\ stored = <<>> /\ now = 0 /\ tasks = <<>>
  /\ ticks = 0 /\ incLog = <<>> /\ clobbered = FALSE /\ reads = 0

IdleReg ==
  /\ build = "none" /\ wpc = "idle" /\ wAction = 0 /\ wStep = 0 /\ wRef = 0
  /\ failed = {}

IdleVer ==
  /\ apiKey = FALSE /\ vpc = "idle" /\ vmodel = <<>>
  /\ probes = <<>> /\ firstError = <<>> /\ verdict = <<>> /\ llmModels = <<>>
  /\ requests = <<>>

IdleStep ==
  sVariant = "single" /\ sStep = <<>> /\ spc = "idle" /\ sClock = 0 /\ sDeadline = <<>> /\ sTurn = 0 /\ sError = <<>> /\ sRunning = 0

IdleRen ==
  rTemplate = <<>> /\ context = <<>> /\ renderings = <<>>

IdleGate ==
  gateClient = "map" /\ health = <<>> /\ callers = <<>>

IdleChat ==
  messageInput = "" /\ sendDisabled = FALSE /\ messageHistory = <<>> /\ preparing = 0 /\ inFlight = 0 /\ responses = 0

LoopNext ==
  \/ ModelFails
  \/ ModelReturnsText
  \/ ModelReturnsToolCalls
  \/ ModelReturnsChoice
  \/ ToolCallInvalid
  \/ ToolCallThrows
  \/ ToolCallSucceeds
  \/ StopSucceeds
  \/ ExhaustBegin
  \/ ExhaustSettles

LoopInit == InitLoop /\ IdleAct /\ IdleCas /\ IdleCnt /\ IdleReg /\ IdleVer /\ IdleStep /\ IdleRen /\ IdleGate /\ IdleChat

SpecLoop == LoopInit /\ [][LoopNext]_vars

(***************************************************************************)
(* The loop with whole iterations as steps.  Each action below is one pass *)
(* of the for loop of executeMultiTurn that neither returns nor throws,    *)
(* from the model call to the pruning at the end of the body; the loop     *)
(* runs long enough for the conversation to outgrow the pruning threshold. *)
(***************************************************************************)

MaxTurns == 6    \* largest max_iterations explored with whole iterations

InitTurns ==
  /\ variant \in Variants
  /\ stop_action = (CHOOSE s \in StopActionsOf(variant) : TRUE)
  /\ max_iterations = MaxTurns
  /\ conversation = <<SystemMsg, UserMsg("initial")>> /\ view = <<>>
  /\ i = 0 /\ pc = "turn" /\ toolCalls = <<>> /\ k = 0 /\ nextId = 1
  /\ modelCalls = 0 /\ stopRuns = 0 /\ synthRuns = 0 /\ toolRuns = 0
  /\ stopResult = NullResult /\ retval = NoRet /\ thrown = "none"

\* one iteration: the model is called with the view, the body leaves conv
\* and has used ids tool-call ids and run ran actions
Iteration(conv, ids, ran) ==
  /\ pc = "turn" /\ i < max_iterations
  /\ modelCalls' = modelCalls + 1
  /\ view' = insertBrowserState(conversation).view
  /\ conversation' = conv
  /\ i' = i + 1
  /\ nextId' = nextId + ids
  /\ toolRuns' = toolRuns + ran
  /\ UNCHANGED <<variant, stop_action, max_iterations, pc, toolCalls, k, stopRuns,
                 synthRuns, stopResult, retval, thrown>>
  /\ UNCHANGED nonLoopVars

\* the ids of n tool calls numbered from nextId
FreshIds(n) == [j \in 1..n |-> nextId + j - 1]

\* the response has no tool calls: two messages and continue
TurnReturnsText ==
  /\ ToolLoop
  /\ Iteration(insertBrowserState(conversation).conversation
                 \o <<TextMsg("text"), UserMsg("reminder")>>, 0, 0)

\* executor.js: the only call of the response is malformed or names no
\* action: continue
TurnContinues ==
  /\ variant = "single"
  /\ LET conv == insertBrowserState(conversation).conversation IN
     \/ Iteration(Append(conv, ToolMsg(nextId, "err_json")), 1, 0)
     \/ Iteration(conv \o <<AssistantCalls(FreshIds(1), "tool_calls"),
                            ToolMsg(nextId, "err_notfound")>>, 1, 0)

\* the tool calls are answered (the first only in executor.js, the first r
\* in the serial loop, where the r-th failed when calls are left), then the
\* conversation is pruned
TurnRunsTools ==
  /\ ToolLoop
  /\ \E n \in 1..MaxCalls :
       \E r \in (IF variant = "single" THEN {1} ELSE 1..n) :
         LET conv == insertBrowserState(conversation).conversation
             broke == variant = "serial" /\ r < n
             answers == [j \in 1..r |->
                           ToolMsg(nextId + j - 1,
                                   IF j = r /\ broke THEN "err_other" ELSE "result")] IN
         Iteration(PruneToolLoop(conv \o <<AssistantCalls(FreshIds(n), "tool_calls")>>
                                      \o answers),
                   n, r)

\* orchestrator/executor.js: the choice and the result of its action
TurnRunsChoice ==
  /\ variant = "choice"
  /\ Iteration(PruneChoice(insertBrowserState(conversation).conversation
                             \o <<TextMsg("choice"), UserMsg("v3_result")>>), 1, 1)

TurnsNext ==
  \/ TurnReturnsText
  \/ TurnContinues
  \/ TurnRunsTools
  \/ TurnRunsChoice

TurnsInit == InitTurns /\ IdleAct /\ IdleCas /\ IdleCnt /\ IdleReg /\ IdleVer /\ IdleStep /\ IdleRen /\ IdleGate /\ IdleChat

SpecTurns == TurnsInit /\ [][TurnsNext]_vars

(***************************************************************************)
(* executeAction                                                           *)
(***************************************************************************)
MaxSteps == 3    \* longest step list of a generic action

\* an action declared without input_schema
NoSchema == [declared |-> FALSE, properties |-> EmptyObj, required |-> {}]

\* actions that are not in the registry: the executor is data-driven
GenericActions ==
  { ActionDef("GENERIC", Schema(("payload" :> "object"), {"payload"}), n) : n \in 0..MaxSteps }
  \cup { ActionDef("UNCHECKED", NoSchema, 2) }

ActionSet == { actionsRegistry[n] : n \in DOMAIN actionsRegistry } \cup GenericActions

ParamSet ==
  { EmptyObj, GoodArgs.obj, BadArgs.obj,
    ("justification" :> "undefined"),
    ("justification" :> "number"),
    ("user_message" :> "string") @@ ("notes" :> "boolean"),
    ("tabId" :> "number") @@ ("form_fields" :> "array"),
    ("tabId" :> "number") @@ ("form_fields" :> "object"),
    ("payload" :> "object"), ("payload" :> "null"), ("payload" :> "array") }

\* values a step can return
StepResults ==
  { NullResult, Res("string", "hi", ABSENT, ABSENT), Res("object", ABSENT, "msg", ABSENT) }

Pending == Res("pending", ABSENT, ABSENT, ABSENT)
Threw   == Res("threw", ABSENT, ABSENT, ABSENT)

LogEntry(idx, prev, out) == [idx |-> idx, prev |-> prev, out |-> out]

InitAction ==
  /\ action \in ActionSet
  /\ params \in ParamSet
  /\ apc = "start" /\ stepIdx = 0 /\ result = NullResult
  /\ stepLog = <<>> /\ aerror = "none"

\* the check made before the step loop
InputAccepted(a, p) == a.input_schema.declared => Valid(p, a.input_schema)

\* executor.js:66-83: validation, then the first executeStep is awaited
executeAction ==
  /\ apc = "start"
  /\ IF ~InputAccepted(action, params)
       THEN /\ apc' = "failed" /\ aerror' = "Validation"
            /\ UNCHANGED stepLog
       ELSE IF action.steps = 0
         THEN /\ apc' = "done" /\ UNCHANGED <<aerror, stepLog>>
         ELSE /\ apc' = "step" /\ UNCHANGED aerror
              /\ stepLog' = <<LogEntry(0, result, Pending)>>
  /\ UNCHANGED <<action, params, stepIdx, result>>
  /\ UNCHANGED nonActVars

\* mutant: the step is handed the result the previous step received
StepReturns_StalePrev ==
  /\ apc = "step"
  /\ \E r \in StepResults :
       LET settled == [stepLog EXCEPT ![Len(stepLog)].out = r] IN
       /\ result' = r
       /\ stepIdx' = stepIdx + 1
       /\ IF stepIdx + 1 < action.steps
            THEN /\ apc' = "step"
                 /\ stepLog' = Append(settled, LogEntry(stepIdx + 1, result, Pending))
            ELSE /\ apc' = "done"
                 /\ stepLog' = settled
  /\ UNCHANGED <<action, params, aerror>>
  /\ UNCHANGED nonActVars

\* executeStep resolves: result = its value; the next step starts or the action returns
StepReturns ==
  /\ apc = "step"
  /\ \E r \in StepResults :
       LET settled == [stepLog EXCEPT ![Len(stepLog)].out = r] IN
       /\ result' = r
       /\ stepIdx' = stepIdx + 1
       /\ IF stepIdx + 1 < action.steps
            THEN /\ apc' = "step"
                 /\ stepLog' = Append(settled, LogEntry(stepIdx + 1, r, Pending))
            ELSE /\ apc' = "done"
                 /\ stepLog' = settled
  /\ UNCHANGED <<action, params, aerror>>
  /\ UNCHANGED nonActVars

\* executeStep rejects (the step throws or STEP_TIMEOUT_MS elapses)
StepThrows ==
  /\ apc = "step"
  /\ stepLog' = [stepLog EXCEPT ![Len(stepLog)].out = Threw]
  /\ apc' = "failed"
  /\ aerror' = "StepFailed"
  /\ UNCHANGED <<action, params, stepIdx, result>>
  /\ UNCHANGED nonActVars

ActionNext ==
  \/ executeAction
  \/ StepReturns
  \/ StepThrows

ActionInit == InitAction /\ IdleLoop /\ IdleCas /\ IdleCnt /\ IdleReg /\ IdleVer /\ IdleStep /\ IdleRen /\ IdleGate /\ IdleChat

SpecAction == ActionInit /\ [][ActionNext]_vars

(***************************************************************************)
(* Model cascade: generate                                                 *)
(***************************************************************************)
MaxErrors  == 2   \* generate is not started once a model has this many errors
MaxSuccess == 1   \* ... or more than this many successes have been recorded

Clients == {"map", "counter"}
\*  "map":     modules/llm.js        (modelFailures map, no fallback pass)
\*  "counter": llm/index.js + modules/llm/models.js (health counter, fallback pass)

INTELLIGENCE_LEVELS == <<"HIGH", "MEDIUM", "LOW">>
Levels == {"HIGH", "MEDIUM", "LOW"}

Tiers(h, m, l) == ("HIGH" :> h) @@ ("MEDIUM" :> m) @@ ("LOW" :> l)

\* configured model sets (llmModels)
Configs ==
  { Tiers(<<>>, <<"m1", "m2", "m3">>, <<>>),
    Tiers(<<"m1">>, <<"m2">>, <<"m3">>),
    Tiers(<<>>, <<"m1">>, <<>>) }

AllModels == {"m1", "m2", "m3"}

Counters(e, sk, su, rec) == [error |-> e, skip |-> sk, success |-> su, recent |-> rec]
ZeroStats == [m \in AllModels |-> Counters(0, 0, 0, 0)]

TotalSuccess(st) == st["m1"].success + st["m2"].success + st["m3"].success

LevelIndex(level) == CHOOSE j \in 1..3 : INTELLIGENCE_LEVELS[j] = level

RECURSIVE ConcatTiers(_, _)
ConcatTiers(cfg, j) ==
  IF j > 3 THEN <<>> ELSE cfg[INTELLIGENCE_LEVELS[j]] \o ConcatTiers(cfg, j + 1)

\* mutant: every tier is walked whatever the level
getCascadingModels_AllTiers(cfg, intelligence) == ConcatTiers(cfg, 1)

\* the tier of the requested level followed by every lower tier
getCascadingModels(cfg, intelligence) == ConcatTiers(cfg, LevelIndex(intelligence))

\* mutant: the gate compares with <=
shouldSkip_OffByOne(st, m) == st[m].error # 0 /\ st[m].skip <= st[m].error

\* the back-off gate
shouldSkip(st, m) == st[m].error # 0 /\ st[m].skip < st[m].error

\* the increment of skip made by the gate when it skips
recordSkip(st, m) == [st EXCEPT ![m].skip = @ + 1]

\* mutant: a success leaves the error and skip counters as they are
recordSuccess_KeepsCounters(st, m) ==
  [st EXCEPT ![m] = Counters(st[m].error, st[m].skip, st[m].success + 1, st[m].recent)]

\* models.js recordSuccess: reset(key, ['error','skip']); increment(key,'success')
\* llm.js: modelFailures.delete(model)
recordSuccess(st, m) ==
  [st EXCEPT ![m] = Counters(0, 0, st[m].success + 1, 0)]

\* mutant: the reset after the increment deletes every counter of the key
recordError_DeletesKey(st, m) ==
  [st EXCEPT ![m] = Counters(0, 0, 0, 0)]

\* models.js recordError: increment(key,'error'); reset(key, ['skip'])
recordError(st, m) ==
  [st EXCEPT ![m] = Counters(st[m].error + 1, 0, st[m].success, st[m].recent + 1)]

\* llm.js recordFailure: first failure creates {failures: 1, skips: 0};
\* later ones count only when skips >= failures
recordFailure(st, m) ==
  IF st[m].error = 0 THEN [st EXCEPT ![m] = Counters(1, 0, st[m].success, 1)]
  ELSE IF st[m].skip >= st[m].error
    THEN [st EXCEPT ![m] = Counters(st[m].error + 1, 0, st[m].success, st[m].recent + 1)]
    ELSE st

RecordFail(c, st, m) == IF c = "map" THEN recordFailure(st, m) ELSE recordError(st, m)

\* mutant: the fallback pass walks the configured order
getAllModelsSortedByRecentErrors_Unsorted(cfg, st) == ConcatTiers(cfg, 1)

\* all tiers, HIGH first, stably sorted by errors in the last hour
getAllModelsSortedByRecentErrors(cfg, st) ==
  LET all == ConcatTiers(cfg, 1)
      Rank(j) == 1 + Cardinality({l \in 1..Len(all) :
                        \/ st[all[l]].recent < st[all[j]].recent
                        \/ st[all[l]].recent = st[all[j]].recent /\ l < j})
  IN [r \in 1..Len(all) |-> all[CHOOSE j \in 1..Len(all) : Rank(j) = r]]

Attempt(m, ok, pass) == [model |-> m, ok |-> ok, pass |-> pass]

InitCascade ==
  /\ client \in Clients
  /\ requested = "none"
  /\ models \in Configs
  /\ stats = ZeroStats
  /\ gpc = "ready" /\ cascadingModels = <<>> /\ sortedModels = <<>>
  /\ pos = 0 /\ failing = {}
  /\ attempts = <<>> /\ skipped = {}
  /\ startStats = ZeroStats /\ sortStats = ZeroStats /\ outcome = "none"

\* generate() is called: the cascade for the requested level is computed
Generate ==
  /\ gpc = "ready"
  /\ \A m \in AllModels : stats[m].error < MaxErrors
  /\ TotalSuccess(stats) <= MaxSuccess
  /\ \E intelligence \in Levels :
       /\ requested' = intelligence
       /\ cascadingModels' = getCascadingModels(models, intelligence)
  /\ sortedModels' = <<>>
  /\ \E f \in SUBSET AllModels : failing' = f
  /\ pos' = 1 /\ gpc' = "primary" /\ attempts' = <<>> /\ skipped' = {}
  /\ startStats' = stats /\ outcome' = "pending"
  /\ UNCHANGED <<client, models, stats, sortStats>>
  /\ UNCHANGED nonCasVars

CurrentModel == IF gpc = "fallback" THEN sortedModels[pos] ELSE cascadingModels[pos]

\* primary pass: the entry is in back-off
PrimarySkip ==
  /\ gpc = "primary" /\ pos <= Len(cascadingModels)
  /\ shouldSkip(stats, CurrentModel)
  /\ stats' = recordSkip(stats, CurrentModel)
  /\ skipped' = skipped \cup {CurrentModel}
  /\ pos' = pos + 1
  /\ UNCHANGED <<client, requested, models, gpc, cascadingModels, sortedModels, failing, attempts, startStats, sortStats, outcome>>
  /\ UNCHANGED nonCasVars

\* primary pass: the request fails
PrimaryFail ==
  /\ gpc = "primary" /\ pos <= Len(cascadingModels)
  /\ ~shouldSkip(stats, CurrentModel)
  /\ CurrentModel \in failing
  /\ stats' = RecordFail(client, stats, CurrentModel)
  /\ attempts' = Append(attempts, Attempt(CurrentModel, FALSE, "primary"))
  /\ pos' = pos + 1
  /\ UNCHANGED <<client, requested, models, gpc, cascadingModels, sortedModels, failing, skipped, startStats, sortStats, outcome>>
  /\ UNCHANGED nonCasVars

\* mutant: the message of a successful request is not returned and the
\* pass goes on
PrimarySuccess_FallsThrough ==
  /\ gpc = "primary" /\ pos <= Len(cascadingModels)
  /\ ~shouldSkip(stats, CurrentModel)
  /\ CurrentModel \notin failing
  /\ stats' = recordSuccess(stats, CurrentModel)
  /\ attempts' = Append(attempts, Attempt(CurrentModel, TRUE, "primary"))
  /\ pos' = pos + 1
  /\ UNCHANGED <<client, requested, models, gpc, cascadingModels, sortedModels, failing, skipped, startStats, sortStats, outcome>>
  /\ UNCHANGED nonCasVars

\* primary pass: the request succeeds and its message is returned
PrimarySuccess ==
  /\ gpc = "primary" /\ pos <= Len(cascadingModels)
  /\ ~shouldSkip(stats, CurrentModel)
  /\ CurrentModel \notin failing
  /\ stats' = recordSuccess(stats, CurrentModel)
  /\ attempts' = Append(attempts, Attempt(CurrentModel, TRUE, "primary"))
  /\ outcome' = CurrentModel
  /\ gpc' = "ready"
  /\ UNCHANGED <<client, requested, models, cascadingModels, sortedModels, pos, failing, skipped, startStats, sortStats>>
  /\ UNCHANGED nonCasVars

\* mutant: no client runs a fallback pass
PrimaryExhausted_Throws ==
  /\ gpc = "primary" /\ pos > Len(cascadingModels)
  /\ outcome' = "AllFailed" /\ gpc' = "ready"
  /\ UNCHANGED <<sortedModels, pos, sortStats>>
  /\ UNCHANGED <<client, requested, models, stats, cascadingModels, failing, attempts, skipped,
                 startStats>>
  /\ UNCHANGED nonCasVars

\* primary pass exhausted: llm.js throws, llm/index.js starts the fallback pass
PrimaryExhausted ==
  /\ gpc = "primary" /\ pos > Len(cascadingModels)
  /\ IF client = "map"
       THEN /\ outcome' = "AllFailed" /\ gpc' = "ready"
            /\ UNCHANGED <<sortedModels, pos, sortStats>>
       ELSE /\ sortedModels' = getAllModelsSortedByRecentErrors(models, stats)
            /\ sortStats' = stats
            /\ pos' = 1 /\ gpc' = "fallback"
            /\ UNCHANGED outcome
  /\ UNCHANGED <<client, requested, models, stats, cascadingModels, failing, attempts, skipped,
                 startStats>>
  /\ UNCHANGED nonCasVars

FallbackFail ==
  /\ gpc = "fallback" /\ pos <= Len(sortedModels)
  /\ CurrentModel \in failing
  /\ stats' = recordError(stats, CurrentModel)
  /\ attempts' = Append(attempts, Attempt(CurrentModel, FALSE, "fallback"))
  /\ pos' = pos + 1
  /\ UNCHANGED <<client, requested, models, gpc, cascadingModels, sortedModels, failing, skipped, startStats, sortStats, outcome>>
  /\ UNCHANGED nonCasVars

FallbackSuccess ==
  /\ gpc = "fallback" /\ pos <= Len(sortedModels)
  /\ CurrentModel \notin failing
  /\ stats' = recordSuccess(stats, CurrentModel)
  /\ attempts' = Append(attempts, Attempt(CurrentModel, TRUE, "fallback"))
  /\ outcome' = CurrentModel
  /\ gpc' = "ready"
  /\ UNCHANGED <<client, requested, models, cascadingModels, sortedModels, pos, failing, skipped, startStats, sortStats>>
  /\ UNCHANGED nonCasVars

FallbackExhausted ==
  /\ gpc = "fallback" /\ pos > Len(sortedModels)
  /\ outcome' = "AllFailed" /\ gpc' = "ready"
  /\ UNCHANGED <<client, requested, models, stats, cascadingModels, sortedModels, pos, failing, attempts, skipped,
                 startStats, sortStats>>
  /\ UNCHANGED nonCasVars

\* more than an hour passes between two calls: no error is in the last hour
HourPasses ==
  /\ gpc = "ready"
  /\ \E m \in AllModels : stats[m].recent > 0
  /\ stats' = [m \in AllModels |-> [stats[m] EXCEPT !.recent = 0]]
  /\ UNCHANGED <<client, requested, models, gpc, cascadingModels, sortedModels, pos, failing, attempts, skipped,
                 startStats, sortStats, outcome>>
  /\ UNCHANGED nonCasVars

CascadeNext ==
  \/ Generate
  \/ PrimarySkip
  \/ PrimaryFail
  \/ PrimarySuccess
  \/ PrimaryExhausted
  \/ FallbackFail
  \/ FallbackSuccess
  \/ FallbackExhausted
  \/ HourPasses

CascadeInit == InitCascade /\ IdleLoop /\ IdleAct /\ IdleCnt /\ IdleReg /\ IdleVer /\ IdleStep /\ IdleRen /\ IdleGate /\ IdleChat

SpecCascade == CascadeInit /\ [][CascadeNext]_vars

(***************************************************************************)
(* TimeBucketCounter (the shared health counter)                           *)
(***************************************************************************)
MaxIncrements == 3   \* increment calls made in one behaviour
MaxTicks      == 2   \* clock advances made in one behaviour
MaxReads      == 1   \* getStats calls made in one behaviour

\* time is counted in seconds (the code counts milliseconds)
MINUTE == 60
HOUR   == 60 * MINUTE
DAY    == 24 * HOUR

\* TIERS[tier].retention
MINUTE_RETENTION == 60
HOUR_RETENTION   == 24
DAY_RETENTION    == 30

CounterKeys == {"m1"}
Metrics     == {"error", "success"}
Amounts     == {1}

getBucketTs(time, duration) == (time \div duration) * duration

Bucket(ts, count) == [ts |-> ts, count |-> count]

\* { minute: [], hour: [], day: [] }; present = the entry exists in this.data
Buckets(present, minute, hour, day) ==
  [present |-> present, minute |-> minute, hour |-> hour, day |-> day]
NoBuckets == Buckets(FALSE, <<>>, <<>>, <<>>)
EmptyData == [e \in CounterKeys \X Metrics |-> NoBuckets]

\* mutant: the count of a bucket found is replaced, not added to
AddCount_Overwrites(list, ts, amount) ==
  IF \E j \in 1..Len(list) : list[j].ts = ts
    THEN [j \in 1..Len(list) |->
            IF list[j].ts = ts THEN Bucket(ts, amount) ELSE list[j]]
    ELSE Append(list, Bucket(ts, amount))

\* find the bucket with timestamp ts or push a new one, then add amount
AddCount(list, ts, amount) ==
  IF \E j \in 1..Len(list) : list[j].ts = ts
    THEN [j \in 1..Len(list) |->
            IF list[j].ts = ts THEN Bucket(ts, list[j].count + amount) ELSE list[j]]
    ELSE Append(list, Bucket(ts, amount))

Expired(list, cutoff) == SelectSeq(list, LAMBDA b : b.ts < cutoff)
Kept(list, cutoff)    == SelectSeq(list, LAMBDA b : b.ts >= cutoff)

\* add every expired bucket to the bucket of the coarser tier that covers it
RECURSIVE RollInto(_, _, _)
RollInto(dest, expired, duration) ==
  IF expired = <<>> THEN dest
  ELSE RollInto(AddCount(dest, getBucketTs(Head(expired).ts, duration), Head(expired).count),
                Tail(expired), duration)

\* list.sort((a, b) => a.ts - b.ts)
SortByTs(list) ==
  LET Rank(j) == 1 + Cardinality({l \in 1..Len(list) :
                        \/ list[l].ts < list[j].ts
                        \/ list[l].ts = list[j].ts /\ l < j})
  IN [r \in 1..Len(list) |-> list[CHOOSE j \in 1..Len(list) : Rank(j) = r]]

\* mutant: expired minute buckets are dropped instead of rolled up
aggregate_DropsExpired(b, t) ==
  LET hourCutoff  == t - MINUTE_RETENTION * MINUTE
      dayCutoff   == t - HOUR_RETENTION * HOUR
      day1        == RollInto(b.day, Expired(b.hour, dayCutoff), DAY)
      monthCutoff == t - DAY_RETENTION * DAY
  IN Buckets(TRUE, SortByTs(Kept(b.minute, hourCutoff)),
                   SortByTs(Kept(b.hour, dayCutoff)),
                   SortByTs(Kept(day1, monthCutoff)))

\* _aggregate(buckets, now)
aggregate(b, t) ==
  LET hourCutoff  == t - MINUTE_RETENTION * MINUTE
      hour1       == RollInto(b.hour, Expired(b.minute, hourCutoff), HOUR)
      dayCutoff   == t - HOUR_RETENTION * HOUR
      day1        == RollInto(b.day, Expired(hour1, dayCutoff), DAY)
      monthCutoff == t - DAY_RETENTION * DAY
  IN Buckets(TRUE, SortByTs(Kept(b.minute, hourCutoff)),
                   SortByTs(Kept(hour1, dayCutoff)),
                   SortByTs(Kept(day1, monthCutoff)))

\* mutant: the tiers are not aggregated after the update
Incremented_NoAggregate(d, key, counter, amount, t) ==
  LET b == d[<<key, counter>>] IN
  [d EXCEPT ![<<key, counter>>] =
     Buckets(TRUE, AddCount(b.minute, getBucketTs(t, MINUTE), amount), b.hour, b.day)]

\* the synchronous part of increment(key, counter, amount) at time t
Incremented(d, key, counter, amount, t) ==
  LET b == d[<<key, counter>>]
      withMinute == [b EXCEPT !.minute = AddCount(b.minute, getBucketTs(t, MINUTE), amount)]
  IN [d EXCEPT ![<<key, counter>>] = aggregate(withMinute, t)]

RECURSIVE SumCounts(_)
SumCounts(list) == IF list = <<>> THEN 0 ELSE Head(list).count + SumCounts(Tail(list))

\* _sumBuckets(buckets, since)
sumBuckets(b, since) ==
  SumCounts(Kept(b.minute, since)) + SumCounts(Kept(b.hour, since))
    + SumCounts(Kept(b.day, since))

\* the executor tasks that use the counter
TaskIds == {"A", "B"}

Task(pc_, key, counter, amount, snap) ==
  [pc |-> pc_, key |-> key, counter |-> counter, amount |-> amount, snap |-> snap]
IdleTask == Task("idle", "none", "none", 0, EmptyData)

InFlight == {t \in TaskIds : tasks[t].pc # "idle"}

\* instants at which a behaviour starts, and the pauses between operations
StartTimes == {2 * DAY, 2 * DAY + 59 * MINUTE + 30}
Delays     == {30, 61 * MINUTE, 25 * HOUR}

InitCounter ==
  /\ data = EmptyData /\ loaded = FALSE /\ stored = EmptyData
  /\ now \in StartTimes
  /\ tasks = [t \in TaskIds |-> IdleTask]
  /\ ticks = 0 /\ incLog = <<>> /\ clobbered = FALSE /\ reads = 0

\* increment() is called: load() returns at once when loaded, else it
\* issues storage.get, whose result is the value stored at this moment
Increment(t) ==
  /\ tasks[t].pc = "idle"
  /\ Len(incLog) + Cardinality(InFlight) < MaxIncrements
  /\ \E key \in CounterKeys, counter \in Metrics, amount \in Amounts :
       tasks' = [tasks EXCEPT ![t] =
                   Task(IF loaded THEN "ready" ELSE "loading", key, counter, amount,
                        IF loaded THEN EmptyData ELSE stored)]
  /\ UNCHANGED <<data, loaded, stored, now, ticks, incLog, clobbered, reads>>
  /\ UNCHANGED nonCntVars

\* storage.get resolves inside load(): this.data = result, this.loaded = true
LoadResolves(t) ==
  /\ tasks[t].pc = "loading"
  /\ data' = tasks[t].snap
  /\ loaded' = TRUE
  /\ clobbered' = (clobbered \/ loaded)
  /\ tasks' = [tasks EXCEPT ![t] = Task("ready", @.key, @.counter, @.amount, EmptyData)]
  /\ UNCHANGED <<stored, now, ticks, incLog, reads>>
  /\ UNCHANGED nonCntVars

\* increment() continues after load(): the bucket is updated, the tiers are
\* aggregated and storage.set is issued with this.data
ApplyIncrement(t) ==
  /\ tasks[t].pc = "ready"
  /\ LET next == Incremented(data, tasks[t].key, tasks[t].counter, tasks[t].amount, now) IN
       /\ data' = next
       /\ stored' = next
  /\ incLog' = Append(incLog, [key |-> tasks[t].key, counter |-> tasks[t].counter,
                               at |-> now, amount |-> tasks[t].amount])
  /\ tasks' = [tasks EXCEPT ![t].pc = "saving"]
  /\ UNCHANGED <<loaded, now, ticks, clobbered, reads>>
  /\ UNCHANGED nonCntVars

\* storage.set resolves: increment() returns
SaveResolves(t) ==
  /\ tasks[t].pc = "saving"
  /\ tasks' = [tasks EXCEPT ![t] = IdleTask]
  /\ UNCHANGED <<data, loaded, stored, now, ticks, incLog, clobbered, reads>>
  /\ UNCHANGED nonCntVars

\* the value getStats(key) computes from this.data at time t: null when
\* this.data[key] is missing, else one entry per counter of the key
getStats(d, key, t) ==
  LET counters == {m \in Metrics : d[<<key, m>>].present} IN
  IF counters = {} THEN <<>>
  ELSE [m \in counters |->
          LET b == d[<<key, m>>] IN
          [total |-> sumBuckets(b, 0),
           lastHour |-> sumBuckets(b, t - HOUR),
           lastDay |-> sumBuckets(b, t - DAY),
           buckets |-> <<Len(b.minute), Len(b.hour), Len(b.day)>>]]

ReadsInFlight == {t \in TaskIds : tasks[t].pc = "reading"}

\* getStats(key) is called: on a loaded counter load() returns at once and
\* getStats(data, key, now) is returned to the caller, which the counter does
\* not keep; otherwise load() issues storage.get
GetStats(t) ==
  /\ tasks[t].pc = "idle"
  /\ reads + Cardinality(ReadsInFlight) < MaxReads
  /\ \E key \in CounterKeys :
       IF loaded
         THEN /\ reads' = reads + 1
              /\ UNCHANGED tasks
         ELSE /\ tasks' = [tasks EXCEPT ![t] = Task("reading", key, "none", 0, stored)]
              /\ UNCHANGED reads
  /\ UNCHANGED <<data, loaded, stored, now, ticks, incLog, clobbered>>
  /\ UNCHANGED nonCntVars

\* storage.get resolves inside the load() of getStats: this.data = result,
\* this.loaded = true, then getStats(data', key, now) is returned
ReadLoadResolves(t) ==
  /\ tasks[t].pc = "reading"
  /\ data' = tasks[t].snap
  /\ loaded' = TRUE
  /\ clobbered' = (clobbered \/ loaded)
  /\ reads' = reads + 1
  /\ tasks' = [tasks EXCEPT ![t] = IdleTask]
  /\ UNCHANGED <<stored, now, ticks, incLog>>
  /\ UNCHANGED nonCntVars

\* time passes
Tick ==
  /\ ticks < MaxTicks
  /\ \E d \in Delays : now' = now + d
  /\ ticks' = ticks + 1
  /\ UNCHANGED <<data, loaded, stored, tasks, incLog, clobbered, reads>>
  /\ UNCHANGED nonCntVars

CounterNext ==
  \/ \E t \in TaskIds : Increment(t)
  \/ \E t \in TaskIds : LoadResolves(t)
  \/ \E t \in TaskIds : ApplyIncrement(t)
  \/ \E t \in TaskIds : SaveResolves(t)
  \/ \E t \in TaskIds : GetStats(t)
  \/ \E t \in TaskIds : ReadLoadResolves(t)
  \/ Tick

CounterInit == InitCounter /\ IdleLoop /\ IdleAct /\ IdleCas /\ IdleReg /\ IdleVer /\ IdleStep /\ IdleRen /\ IdleGate /\ IdleChat

SpecCounter == CounterInit /\ [][CounterNext]_vars

(***************************************************************************)
(* The counter used by one caller that awaits every increment: load(),     *)
(* the update, _aggregate and save() of one call are over before the next  *)
(* call starts.  Pauses reach past the retention of the day tier.          *)
(***************************************************************************)

LongDelays  == Delays \cup {31 * DAY}
SeqAmounts  == {1, 2}

InitRollUp ==
  /\ data = EmptyData /\ loaded = FALSE /\ stored = EmptyData
  /\ now \in StartTimes
  /\ tasks = [t \in TaskIds |-> IdleTask]
  /\ ticks = 0 /\ incLog = <<>> /\ clobbered = FALSE /\ reads = 0

\* await increment(key, counter, amount)
IncrementAwaited ==
  /\ Len(incLog) < MaxIncrements
  /\ \E key \in CounterKeys, counter \in Metrics, amount \in SeqAmounts :
       LET loadedData == IF loaded THEN data ELSE stored
           next == Incremented(loadedData, key, counter, amount, now) IN
       /\ data' = next
       /\ stored' = next
       /\ incLog' = Append(incLog, [key |-> key, counter |-> counter,
                                    at |-> now, amount |-> amount])
  /\ loaded' = TRUE
  /\ UNCHANGED <<now, tasks, ticks, clobbered, reads>>
  /\ UNCHANGED nonCntVars

\* time passes between two calls
LongTick ==
  /\ ticks < MaxTicks
  /\ \E d \in LongDelays : now' = now + d
  /\ ticks' = ticks + 1
  /\ UNCHANGED <<data, loaded, stored, tasks, incLog, clobbered, reads>>
  /\ UNCHANGED nonCntVars

RollUpNext ==
  \/ IncrementAwaited
  \/ LongTick

RollUpInit == InitRollUp /\ IdleLoop /\ IdleAct /\ IdleCas /\ IdleReg /\ IdleVer /\ IdleStep /\ IdleRen /\ IdleGate /\ IdleChat

SpecRollUp == RollUpInit /\ [][RollUpNext]_vars

(***************************************************************************)
(* The registered actions and their steps                                  *)
(***************************************************************************)
LLM_TOOL       == "LLM_TOOL"
BROWSER_ROUTER == "BROWSER_ROUTER"
BROWSER_ACTION == "BROWSER_ACTION"

browserActions ==
  <<READ_PAGE, "CLICK_ELEMENT", "NAVIGATE_TO", "GET_PAGE_STATE", FILL_FORM,
    "SELECT_OPTION", "CHECK_CHECKBOX", "SUBMIT_FORM", "SCROLL_TO", "WAIT_FOR_LOAD",
    "WAIT_FOR_ELEMENT", "GO_BACK", "GO_FORWARD">>

\* tool_choice (called choice in the orchestrator's step format);
\* max_iterations is <<n>> when declared and <<>> when left out
ToolChoice(available, stop, maxIterations) ==
  [declared |-> TRUE, available_actions |-> available, stop_action |-> stop,
   max_iterations |-> maxIterations]
NoToolChoice ==
  [declared |-> FALSE, available_actions |-> <<>>, stop_action |-> "",
   max_iterations |-> <<>>]

\* a step: a function, an LLM step ({type: 'llm', ...} or {llm: {...}}), or a
\* sub-action step ({action: name}); output_schema is llm.schema in the
\* orchestrator's format
Step(type, hasSchema, choice, subAction) ==
  [type |-> type, output_schema |-> hasSchema, tool_choice |-> choice,
   action |-> subAction]
FunctionStep == Step("function", FALSE, NoToolChoice, "")
SchemaStep   == Step("llm", TRUE, NoToolChoice, "")
\* mutant: a multi-turn step that also declares an output schema
ChoiceStep_WithSchema(c) == Step("llm", TRUE, c, "")
ChoiceStep(c) == Step("llm", FALSE, c, "")

\* the tools offered by the tier-2 router, ending with its stop action
BrowserTools(stop) ==
  <<READ_PAGE, "CLICK_ELEMENT", FILL_FORM, "SELECT_OPTION", "CHECK_CHECKBOX",
    "SUBMIT_FORM", "NAVIGATE_TO", "SCROLL_TO", "WAIT_FOR_LOAD", "WAIT_FOR_ELEMENT",
    "GO_BACK", "GO_FORWARD", stop>>

\* browserActionRouter.steps: with tool_choice and FINAL_RESPONSE in the
\* registry of actions/index.js, with choice and CHAT_RESPONSE in the
\* orchestrator's
browserActionRouterSteps(b) ==
  IF b = "orchestrator"
  THEN <<ChoiceStep(ToolChoice(BrowserTools(CHAT_RESPONSE), CHAT_RESPONSE, <<7>>))>>
  ELSE <<ChoiceStep(ToolChoice(BrowserTools(FINAL_RESPONSE), FINAL_RESPONSE, <<7>>))>>

\* routerAction.steps: the choice declares no max_iterations
routerActionSteps ==
  <<ChoiceStep(ToolChoice(<<BROWSER_ACTION, CHAT_RESPONSE>>, CHAT_RESPONSE, <<>>))>>

\* the registries: actions/index.js ("index"), its version with the summary
\* action ("summary"), and buildActionsRegistry of the orchestrator
Builds == {"index", "summary", "orchestrator"}

\* mutant: the stop actions are not registered
allActions_WithoutStopActions(b) ==
  browserActions \o <<LLM_TOOL, BROWSER_ROUTER, BROWSER_ACTION>>
allActions(b) ==
  browserActions \o
    CASE b = "index"        -> <<FINAL_RESPONSE, LLM_TOOL, BROWSER_ROUTER, BROWSER_ACTION>>
      [] b = "summary"      -> <<SUMMARY_TOOL, LLM_TOOL, BROWSER_ROUTER, BROWSER_ACTION>>
      [] b = "orchestrator" -> <<CHAT_RESPONSE, BROWSER_ROUTER, BROWSER_ACTION>>

\* Object.fromEntries(allActions.map(a => [a.name, a])): the registered names
Registry(b) == {allActions(b)[j] : j \in 1..Len(allActions(b))}

\* the declarations at hand: routerAction only in the orchestrator's step
\* format, browserActionRouter not in the format of the "summary" registry
HasDeclaration(b, name) ==
  /\ name = BROWSER_ROUTER => b = "orchestrator"
  /\ name = BROWSER_ACTION => b # "summary"

Declared(b) == SelectSeq(allActions(b), LAMBDA name : HasDeclaration(b, name))

stepsOf(b, name) ==
  CASE name \in {FINAL_RESPONSE, SUMMARY_TOOL, LLM_TOOL} -> <<SchemaStep, SchemaStep>>
    [] name = CHAT_RESPONSE  -> <<SchemaStep>>
    [] name = BROWSER_ROUTER -> routerActionSteps
    [] name = BROWSER_ACTION -> browserActionRouterSteps(b)
    [] OTHER                 -> <<FunctionStep>>

\* ---- the walk over a registry (the loops of actions.test.js) ----
CurrentName   == Declared(build)[wAction]
CurrentSteps  == stepsOf(build, CurrentName)
CurrentStep   == CurrentSteps[wStep]
CurrentChoice == CurrentStep.tool_choice
CurrentRef    == CurrentChoice.available_actions[wRef]

Failure(msg) == [action |-> CurrentName, step |-> wStep, msg |-> msg]
Failures(conds) == {Failure(c[2]) : c \in {d \in conds : ~d[1]}}

InitRegistry ==
  /\ build \in Builds
  /\ wpc = "action" /\ wAction = 1 /\ wStep = 0 /\ wRef = 0
  /\ failed = {}

\* the step is done: on to the next step, or to the next action
StepDone ==
  IF wStep < Len(CurrentSteps)
  THEN wpc' = "step" /\ wStep' = wStep + 1 /\ wAction' = wAction /\ wRef' = 0
  ELSE wpc' = "action" /\ wStep' = 0 /\ wAction' = wAction + 1 /\ wRef' = 0

\* for (const [name, action] of Object.entries(actionsRegistry))
VisitAction ==
  /\ wpc = "action" /\ wAction <= Len(Declared(build))
  /\ failed' = failed \cup
       Failures({<<Len(CurrentSteps) > 0, "action must have steps array">>})
  /\ IF Len(CurrentSteps) > 0
     THEN wpc' = "step" /\ wStep' = 1 /\ wAction' = wAction
     ELSE wpc' = "action" /\ wStep' = 0 /\ wAction' = wAction + 1
  /\ UNCHANGED <<build, wRef>>
  /\ UNCHANGED nonRegVars

IsLLM(step)     == step.type = "llm"
HasSchema(step) == step.output_schema
HasChoice(step) == step.tool_choice.declared

\* for (const [i, step] of action.steps.entries()): type and output mode
VisitStep ==
  /\ wpc = "step"
  /\ failed' = failed \cup
       Failures({<<CurrentStep.type \in {"function", "llm", "action"}, "invalid step type">>,
                 <<IsLLM(CurrentStep) => (HasSchema(CurrentStep) \/ HasChoice(CurrentStep)),
                   "LLM step must have either output_schema or tool_choice">>,
                 <<IsLLM(CurrentStep) => ~(HasSchema(CurrentStep) /\ HasChoice(CurrentStep)),
                   "LLM step cannot have both output_schema and tool_choice">>,
                 <<CurrentStep.type = "action" => CurrentStep.action \in Registry(build),
                   "Action not found">>})
  /\ IF HasChoice(CurrentStep)
     THEN wpc' = "choice" /\ UNCHANGED <<wAction, wStep, wRef>>
     ELSE StepDone
  /\ UNCHANGED build
  /\ UNCHANGED nonRegVars

\* if (step.tool_choice): stop_action, max_iterations, includes
VisitChoice ==
  /\ wpc = "choice"
  /\ failed' = failed \cup
       Failures({<<CurrentChoice.stop_action # "", "tool_choice.stop_action is required">>,
                 <<Len(CurrentChoice.max_iterations) = 1 /\ CurrentChoice.max_iterations[1] > 0,
                   "tool_choice.max_iterations must be explicitly specified">>,
                 <<\E j \in 1..Len(CurrentChoice.available_actions) :
                      CurrentChoice.available_actions[j] = CurrentChoice.stop_action,
                   "stop_action must be in available_actions">>})
  /\ IF Len(CurrentChoice.available_actions) > 0
     THEN wpc' = "refs" /\ wRef' = 1 /\ UNCHANGED <<wAction, wStep>>
     ELSE StepDone
  /\ UNCHANGED build
  /\ UNCHANGED nonRegVars

\* for (const actionName of available_actions || [])
VisitRef ==
  /\ wpc = "refs"
  /\ failed' = failed \cup
       Failures({<<CurrentRef \in Registry(build), "available_action not found in registry">>})
  /\ IF wRef < Len(CurrentChoice.available_actions)
     THEN wRef' = wRef + 1 /\ UNCHANGED <<wpc, wAction, wStep>>
     ELSE StepDone
  /\ UNCHANGED build
  /\ UNCHANGED nonRegVars

\* the loop over the registry is over
WalkEnds ==
  /\ wpc = "action" /\ wAction > Len(Declared(build))
  /\ wpc' = "done"
  /\ UNCHANGED <<build, wAction, wStep, wRef, failed>>
  /\ UNCHANGED nonRegVars

RegistryNext ==
  \/ VisitAction
  \/ VisitStep
  \/ VisitChoice
  \/ VisitRef
  \/ WalkEnds

RegistryInit == InitRegistry /\ IdleLoop /\ IdleAct /\ IdleCas /\ IdleCnt /\ IdleVer /\ IdleStep /\ IdleRen /\ IdleGate /\ IdleChat

SpecRegistry == RegistryInit /\ [][RegistryNext]_vars

(***************************************************************************)
(* verifyModel and callAPI (the settings page and the cascade client)      *)
(***************************************************************************)
MaxEntries  == 2   \* entries saved by the settings page in one behaviour
MaxRequests == 2   \* requests built by callAPI in one behaviour

\* text is a sequence of characters
LowerCase ==
  ("A" :> "a") @@ ("B" :> "b") @@ ("C" :> "c") @@ ("D" :> "d") @@ ("E" :> "e") @@ ("F" :> "f") @@
  ("G" :> "g") @@ ("H" :> "h") @@ ("I" :> "i") @@ ("J" :> "j") @@ ("K" :> "k") @@ ("L" :> "l") @@
  ("M" :> "m") @@ ("N" :> "n") @@ ("O" :> "o") @@ ("P" :> "p") @@ ("Q" :> "q") @@ ("R" :> "r") @@
  ("S" :> "s") @@ ("T" :> "t") @@ ("U" :> "u") @@ ("V" :> "v") @@ ("W" :> "w") @@ ("X" :> "x") @@
  ("Y" :> "y") @@ ("Z" :> "z")

toLowerCase(text) ==
  [j \in 1..Len(text) |-> IF text[j] \in DOMAIN LowerCase THEN LowerCase[text[j]] ELSE text[j]]

includes(text, part) ==
  \E j \in 1..(Len(text) - Len(part) + 1) : SubSeq(text, j, j + Len(part) - 1) = part

TOOL_CHOICE_PARAM == <<"t", "o", "o", "l", "_", "c", "h", "o", "i", "c", "e">>
TOOL_CHOICE_WORDS == <<"t", "o", "o", "l", " ", "c", "h", "o", "i", "c", "e">>
TOOL              == <<"t", "o", "o", "l">>
NOT_SUPPORTED     == <<"n", "o", "t", " ", "s", "u", "p", "p", "o", "r", "t", "e", "d">>

\* mutant: any message that mentions a tool counts as a tool_choice error
isToolChoiceError_AnyTool(errorMsg) ==
  includes(toLowerCase(errorMsg), TOOL)
\* the test made on the error message of the first probe
isToolChoiceError(errorMsg) ==
  LET lowerMsg == toLowerCase(errorMsg) IN
    \/ includes(lowerMsg, TOOL_CHOICE_PARAM)
    \/ includes(lowerMsg, TOOL_CHOICE_WORDS)
    \/ (includes(lowerMsg, TOOL) /\ includes(lowerMsg, NOT_SUPPORTED))

\* error messages an endpoint answers with
MsgToolChoiceParam == <<"t", "o", "o", "l", "_", "c", "h", "o", "i", "c", "e", " ", "i", "n", "v", "a", "l", "i", "d">>  \* tool_choice invalid
MsgToolChoiceWords == <<"T", "o", "o", "l", " ", "C", "h", "o", "i", "c", "e", " ", "u", "n", "s", "u", "p", "p", "o", "r", "t", "e", "d">>  \* Tool Choice unsupported
MsgToolsNotSupported == <<"t", "o", "o", "l", "s", " ", "n", "o", "t", " ", "s", "u", "p", "p", "o", "r", "t", "e", "d">>  \* tools not supported
MsgNotSupportedTool == <<"N", "o", "t", " ", "S", "u", "p", "p", "o", "r", "t", "e", "d", ":", " ", "T", "o", "o", "l">>  \* Not Supported: Tool
MsgNotSupported == <<"n", "o", "t", " ", "s", "u", "p", "p", "o", "r", "t", "e", "d">>  \* not supported
MsgToolError == <<"t", "o", "o", "l", " ", "e", "r", "r", "o", "r">>  \* tool error
MsgRateLimit == <<"r", "a", "t", "e", " ", "l", "i", "m", "i", "t">>  \* rate limit
NoMessage == <<>>   \* the error body carries no message

ErrorBodies ==
  {MsgToolChoiceParam, MsgToolChoiceWords, MsgToolsNotSupported, MsgNotSupportedTool,
   MsgNotSupported, MsgToolError, MsgRateLimit, NoMessage}

VERIFICATION_FAILED == <<"M", "o", "d", "e", "l", " ", "v", "e", "r", "i", "f", "i", "c", "a", "t", "i", "o", "n", " ", "f", "a", "i", "l", "e", "d">>
KEY_NOT_CONFIGURED  == <<"A", "P", "I", " ", "k", "e", "y", " ", "n", "o", "t", " ", "c", "o", "n", "f", "i", "g", "u", "r", "e", "d">>
FETCH_FAILED        == <<"F", "a", "i", "l", "e", "d", " ", "t", "o", " ", "f", "e", "t", "c", "h">>

\* err.error?.message || 'Model verification failed'
MessageOf(body) == IF body = NoMessage THEN VERIFICATION_FAILED ELSE body

VModels    == {"m1", "m2"}
VProviders == {<<>>, <<"p1">>}

\* a request body: provider is <<>> when the field is left out, tool_choice
\* is ABSENT when the field is left out
Request(model, toolChoice, only) ==
  [model |-> model, tool_choice |-> toolChoice, provider |-> only]

\* a probe sent by verifyModel and the way it was answered:
\* "pending" | "ok" | "rejected" | "threw"
Probe(request) == [request |-> request, answer |-> "pending"]
Answered(sent, answer) == [sent EXCEPT ![Len(sent)].answer = answer]

Verdict(valid, noToolChoice, error) ==
  [valid |-> valid, noToolChoice |-> noToolChoice, error |-> error]
Invalid(error) == Verdict(FALSE, FALSE, error)

\* a configured entry [model, only, opts]
Entry(model, only, noToolChoice) ==
  [model |-> model, only |-> only, noToolChoice |-> noToolChoice]

InitVerify ==
  /\ apiKey \in BOOLEAN
  /\ vpc = "ready" /\ vmodel = <<>> /\ probes = <<>> /\ firstError = <<>>
  /\ verdict = <<>> /\ llmModels = <<>> /\ requests = <<>>

\* verifyModel is called: the first probe is sent with tool_choice required
VerifyModel ==
  /\ vpc = "ready" /\ Len(llmModels) < MaxEntries
  /\ \E modelId \in VModels, providers \in VProviders :
       /\ vmodel' = <<modelId, providers>>
       /\ IF ~apiKey
          THEN /\ verdict' = Invalid(KEY_NOT_CONFIGURED)
               /\ probes' = <<>>
               /\ vpc' = "verified"
          ELSE /\ verdict' = <<>>
               /\ probes' = <<Probe(Request(modelId, "required", providers))>>
               /\ vpc' = "probe1"
  /\ firstError' = <<>>
  /\ UNCHANGED <<apiKey, llmModels, requests>>
  /\ UNCHANGED nonVerVars

\* response.ok
FirstProbeAccepted ==
  /\ vpc = "probe1"
  /\ probes' = Answered(probes, "ok")
  /\ verdict' = Verdict(TRUE, FALSE, <<>>)
  /\ vpc' = "verified"
  /\ UNCHANGED <<apiKey, vmodel, firstError, llmModels, requests>>
  /\ UNCHANGED nonVerVars

\* the first probe is answered with an error: retry without tool_choice
\* when the message is a tool_choice error
FirstProbeRejected ==
  /\ vpc = "probe1"
  /\ \E body \in ErrorBodies :
       LET errorMsg == MessageOf(body) IN
       /\ firstError' = errorMsg
       /\ IF isToolChoiceError(errorMsg)
          THEN /\ probes' = Append(Answered(probes, "rejected"),
                                    Probe(Request(vmodel[1], ABSENT, vmodel[2])))
               /\ vpc' = "probe2"
               /\ verdict' = verdict
          ELSE /\ probes' = Answered(probes, "rejected")
               /\ vpc' = "verified"
               /\ verdict' = Invalid(errorMsg)
  /\ UNCHANGED <<apiKey, vmodel, llmModels, requests>>
  /\ UNCHANGED nonVerVars

\* fetch (or reading the body) throws: catch (e)
ProbeThrows ==
  /\ vpc \in {"probe1", "probe2"}
  /\ probes' = Answered(probes, "threw")
  /\ verdict' = Invalid(FETCH_FAILED)
  /\ vpc' = "verified"
  /\ UNCHANGED <<apiKey, vmodel, firstError, llmModels, requests>>
  /\ UNCHANGED nonVerVars

\* retryResponse.ok
RetryAccepted ==
  /\ vpc = "probe2"
  /\ probes' = Answered(probes, "ok")
  /\ verdict' = Verdict(TRUE, TRUE, <<>>)
  /\ vpc' = "verified"
  /\ UNCHANGED <<apiKey, vmodel, firstError, llmModels, requests>>
  /\ UNCHANGED nonVerVars

RetryRejected ==
  /\ vpc = "probe2"
  /\ \E body \in ErrorBodies : verdict' = Invalid(MessageOf(body))
  /\ probes' = Answered(probes, "rejected")
  /\ vpc' = "verified"
  /\ UNCHANGED <<apiKey, vmodel, firstError, llmModels, requests>>
  /\ UNCHANGED nonVerVars

\* handleModelSave: the entry is stored with opts = { noToolChoice: true }
\* when the verdict carries the flag
ModelSaved ==
  /\ vpc = "verified"
  /\ llmModels' = Append(llmModels, Entry(vmodel[1], vmodel[2], verdict.noToolChoice))
  /\ vpc' = "ready"
  /\ UNCHANGED <<apiKey, vmodel, probes, firstError, verdict, requests>>
  /\ UNCHANGED nonVerVars

\* mutant: tool_choice is sent whatever the flag
callAPI_AlwaysRequired(model, only, noToolChoice) ==
  Request(model, "required", only)
\* the request callAPI builds
callAPI(model, only, noToolChoice) ==
  Request(model, IF ~noToolChoice THEN "required" ELSE ABSENT, only)

\* generate sends a request for a configured entry
CallAPI ==
  /\ vpc = "ready" /\ apiKey /\ Len(requests) < MaxRequests
  /\ \E j \in 1..Len(llmModels) :
       requests' = Append(requests, [entry |-> j] @@
                      callAPI(llmModels[j].model, llmModels[j].only, llmModels[j].noToolChoice))
  /\ UNCHANGED <<apiKey, vpc, vmodel, probes, firstError, verdict, llmModels>>
  /\ UNCHANGED nonVerVars

VerifyNext ==
  \/ VerifyModel
  \/ FirstProbeAccepted
  \/ FirstProbeRejected
  \/ ProbeThrows
  \/ RetryAccepted
  \/ RetryRejected
  \/ ModelSaved
  \/ CallAPI

VerifyInit == InitVerify /\ IdleLoop /\ IdleAct /\ IdleCas /\ IdleCnt /\ IdleReg /\ IdleStep /\ IdleRen /\ IdleGate /\ IdleChat

SpecVerify == VerifyInit /\ [][VerifyNext]_vars

(***************************************************************************)
(* executeStep and withTimeout: one step of an outer action, with the      *)
(* clock that drives the timers                                            *)
(***************************************************************************)
MaxQuanta == 6    \* the clock is followed for this many quanta

STEP_TIMEOUT == 20   \* STEP_TIMEOUT_MS, in seconds
LLM_TIMEOUT  == 40   \* LLM_TIMEOUT_MS, in seconds

\* the clock advances by half a step timeout at a time
Quantum == STEP_TIMEOUT \div 2

\* a step: a function, an LLM step with an output schema ("llm"), an LLM step
\* with a tool choice ("multi") or, in the orchestrator, a sub-action step
StepOf(kind, maxIterations, name, subParams) ==
  [kind |-> kind, max_iterations |-> maxIterations, action |-> name, params |-> subParams]

Steps(v) ==
  { StepOf("function", 0, "none", EmptyObj), StepOf("llm", 0, "none", EmptyObj) }
  \cup { StepOf("multi", n, "none", EmptyObj) : n \in 1..MaxIter }
  \cup IF v = "choice"
         THEN { StepOf("action", 0, n, p) :
                  n \in (DOMAIN actionsRegistry) \cup {NO_SUCH_ACTION}, p \in ParamSet }
         ELSE {}

\* an Error object: message, the message it wraps, and the two fields
\* executeAction sets on a validation error
Err(message, cause, isValidationError) ==
  [message |-> message, cause |-> cause,
   isValidationError |-> isValidationError, validationErrors |-> isValidationError]

TimeoutError     == Err("Timeout", "none", FALSE)
StepError        == Err("Step threw", "none", FALSE)
ModelError       == Err("All models failed", "none", FALSE)
NotFoundError    == Err("Action not found", "none", FALSE)
ValidationError  == Err("Validation failed", "none", TRUE)

\* the catch of the step loop: throw new Error(`Step ${i + 1} failed: ${error.message}`)
StepFailed(error) == Err("Step failed", error.message, FALSE)

\* withTimeout(promise, ms): the timer is armed when the promise is created
withTimeout(ms) == <<sClock + ms>>
NoTimer == <<>>

\* the first step of a registered action is a function for the browser
\* actions and an LLM step with a schema for the others
SubStepTimer(name) ==
  IF name \in {READ_PAGE, FILL_FORM} THEN withTimeout(STEP_TIMEOUT) ELSE withTimeout(LLM_TIMEOUT)

InitStep ==
  /\ sVariant \in Variants
  /\ sStep \in Steps(sVariant)
  /\ spc = "ready" /\ sClock = 0 /\ sDeadline = <<>> /\ sTurn = 0 /\ sError = <<>> /\ sRunning = 0

PendingStates == {"step", "model", "tool", "sub"}

\* executeStep is called by the step loop of the outer action
ExecuteStep ==
  /\ spc = "ready"
  /\ CASE sStep.kind = "function" ->
            /\ spc' = "step" /\ sDeadline' = withTimeout(STEP_TIMEOUT)
            /\ UNCHANGED sError
       [] sStep.kind = "llm" ->
            /\ spc' = "step" /\ sDeadline' = withTimeout(LLM_TIMEOUT)
            /\ UNCHANGED sError
       [] sStep.kind = "multi" ->
            /\ spc' = "model" /\ sDeadline' = withTimeout(LLM_TIMEOUT)
            /\ UNCHANGED sError
       [] sStep.kind = "action" ->
            IF sStep.action \notin DOMAIN actionsRegistry
              THEN /\ spc' = "failed" /\ sError' = StepFailed(NotFoundError)
                   /\ UNCHANGED sDeadline
              ELSE LET subAction == actionsRegistry[sStep.action] IN
                   IF ~Valid(sStep.params, subAction.input_schema)
                     THEN /\ spc' = "failed" /\ sError' = StepFailed(ValidationError)
                          /\ UNCHANGED sDeadline
                     ELSE /\ spc' = "sub" /\ sDeadline' = SubStepTimer(sStep.action)
                          /\ UNCHANGED sError
  /\ UNCHANGED <<sVariant, sStep, sClock, sTurn>>
  /\ UNCHANGED sRunning
  /\ UNCHANGED nonStepVars

\* the armed timer has reached its time
TimerDue == IF sDeadline = NoTimer THEN FALSE ELSE sClock >= sDeadline[1]

\* time passes while a promise is pending; an armed timer fires when it is due
TimePasses ==
  /\ spc \in PendingStates
  /\ sClock < MaxQuanta * Quantum
  /\ ~TimerDue
  /\ sClock' = sClock + Quantum
  /\ UNCHANGED <<sVariant, sStep, spc, sDeadline, sTurn, sError>>
  /\ UNCHANGED sRunning
  /\ UNCHANGED nonStepVars

\* the promise of a function step or of a single model call resolves
StepResolves ==
  /\ spc = "step"
  /\ spc' = "resolved" /\ sDeadline' = NoTimer
  /\ UNCHANGED <<sVariant, sStep, sClock, sTurn, sError>>
  /\ UNCHANGED sRunning
  /\ UNCHANGED nonStepVars

\* ... or rejects
StepRejects ==
  /\ spc = "step"
  /\ spc' = "failed" /\ sDeadline' = NoTimer
  /\ sError' = StepFailed(IF sStep.kind = "function" THEN StepError ELSE ModelError)
  /\ UNCHANGED <<sVariant, sStep, sClock, sTurn>>
  /\ UNCHANGED sRunning
  /\ UNCHANGED nonStepVars

\* a step of the sub-action resolves: its next step starts, or the sub-action returns
SubStepResolves ==
  /\ spc = "sub"
  /\ IF sTurn + 1 < actionsRegistry[sStep.action].steps
       THEN /\ sTurn' = sTurn + 1 /\ sDeadline' = withTimeout(LLM_TIMEOUT)
            /\ UNCHANGED spc
       ELSE /\ spc' = "resolved" /\ sDeadline' = NoTimer
            /\ UNCHANGED sTurn
  /\ UNCHANGED <<sVariant, sStep, sClock, sError>>
  /\ UNCHANGED sRunning
  /\ UNCHANGED nonStepVars

\* the model call of a turn resolves: the chosen action starts, under
\* STEP_TIMEOUT_MS in the executor that runs every tool call of a message
ModelAnswers ==
  /\ spc = "model"
  /\ spc' = "tool"
  /\ sDeadline' = IF sVariant = "serial" THEN withTimeout(STEP_TIMEOUT) ELSE NoTimer
  /\ UNCHANGED <<sVariant, sStep, sClock, sTurn, sError>>
  /\ sRunning' = sRunning + 1
  /\ UNCHANGED nonStepVars

\* the model call of a turn rejects: the error leaves the loop and the step
ModelRejects ==
  /\ spc = "model"
  /\ spc' = "failed" /\ sDeadline' = NoTimer
  /\ sError' = StepFailed(ModelError)
  /\ UNCHANGED <<sVariant, sStep, sClock, sTurn>>
  /\ UNCHANGED sRunning
  /\ UNCHANGED nonStepVars

\* the chosen action settles: the stop action ends the loop, another action
\* (or a failure that is fed back) leads to the next turn; after the last
\* turn the stop action is run and the loop returns
ToolSettles ==
  /\ spc = "tool"
  /\ \E stop \in BOOLEAN :
       IF stop \/ sTurn + 1 >= sStep.max_iterations
         THEN /\ spc' = "resolved" /\ sDeadline' = NoTimer /\ UNCHANGED sTurn
         ELSE /\ spc' = "model" /\ sDeadline' = withTimeout(LLM_TIMEOUT)
              /\ sTurn' = sTurn + 1
  /\ UNCHANGED <<sVariant, sStep, sClock, sError>>
  /\ sRunning' = sRunning - 1
  /\ UNCHANGED nonStepVars

\* the timer of withTimeout fires before its promise settled: Timeout.
\* Around a tool call the error is caught and fed back to the model.
\* Promise.race settles with the rejection; the promise that lost the race
\* is left as it is.
TimerFires ==
  /\ spc \in PendingStates
  /\ TimerDue
  /\ IF spc = "tool"
       THEN IF sTurn + 1 >= sStep.max_iterations
              THEN /\ spc' = "resolved" /\ sDeadline' = NoTimer
                   /\ UNCHANGED <<sTurn, sError>>
              ELSE /\ spc' = "model" /\ sDeadline' = withTimeout(LLM_TIMEOUT)
                   /\ sTurn' = sTurn + 1 /\ UNCHANGED sError
       ELSE /\ spc' = "failed" /\ sDeadline' = NoTimer
            /\ sError' = StepFailed(IF spc = "sub" THEN StepFailed(TimeoutError)
                                                  ELSE TimeoutError)
            /\ UNCHANGED sTurn
  /\ UNCHANGED <<sVariant, sStep, sClock>>
  /\ UNCHANGED sRunning
  /\ UNCHANGED nonStepVars

\* a sub-action whose timer fired earlier settles; nothing awaits it
AbandonedSettles ==
  /\ sRunning > (IF spc = "tool" THEN 1 ELSE 0)
  /\ sRunning' = sRunning - 1
  /\ UNCHANGED <<sVariant, sStep, spc, sClock, sDeadline, sTurn, sError>>
  /\ UNCHANGED nonStepVars

StepNext ==
  \/ ExecuteStep
  \/ TimePasses
  \/ StepResolves
  \/ StepRejects
  \/ SubStepResolves
  \/ ModelAnswers
  \/ ModelRejects
  \/ ToolSettles
  \/ TimerFires
  \/ AbandonedSettles

StepInit == InitStep /\ IdleLoop /\ IdleAct /\ IdleCas /\ IdleCnt /\ IdleReg /\ IdleVer /\ IdleRen /\ IdleGate /\ IdleChat

SpecStep == StepInit /\ [][StepNext]_vars

(***************************************************************************)
(* renderTemplate (orchestrator/templates.js)                              *)
(***************************************************************************)
MaxTokens == 3    \* longest template, in text pieces and tags

\* JavaScript values: str is String(value), props the properties of an object
Value(type, str, props) == [type |-> type, str |-> str, props |-> props]
Undefined   == Value("undefined", "undefined", <<>>)
Str(s)      == Value("string", s, <<>>)
Zero        == Value("number", "0", <<>>)
Obj(props)  == Value("object", "[object Object]", props)

IsTruthy(v) ==
  CASE v.type = "undefined" -> FALSE
    [] v.type = "string"    -> v.str # ""
    [] v.type = "number"    -> v.str # "0"
    [] OTHER                -> TRUE

\* current?.[prop]
Prop(current, prop) ==
  IF current.type = "object" /\ prop \in DOMAIN current.props
    THEN current.props[prop] ELSE Undefined

\* getNestedProperty(obj, path); a key is kept as the list path.split('.')
RECURSIVE getNestedProperty(_, _)
getNestedProperty(obj, path) ==
  IF path = <<>> THEN obj
  ELSE getNestedProperty(Prop(obj, Head(path)), Tail(path))

\* the pieces of a template: text, {{key}}, {{#key}} and {{/key}}
Piece(t, key) == [t |-> t, key |-> key]
Text(s)    == Piece("text", <<s>>)
Var(key)   == Piece("var", key)
Open(key)  == Piece("open", key)
Close(key) == Piece("close", key)

TemplateKeys == { <<"a">>, <<"u", "n">> }
Pieces == { Text("t"), Var(<<"a">>), Var(<<"u", "n">>), Open(<<"a">>), Close(<<"a">>) }

RECURSIVE TemplatesOfLength(_)
TemplatesOfLength(n) ==
  IF n = 0 THEN { <<>> }
  ELSE { Append(t, p) : t \in TemplatesOfLength(n - 1), p \in Pieces }

Templates == UNION { TemplatesOfLength(n) : n \in 0..MaxTokens }

\* the contexts: a is missing, empty, a word or 0; u is missing or { n: 'z' }
Contexts ==
  { Obj(a @@ u) :
      a \in { <<>>, ("a" :> Str("")), ("a" :> Str("x")), ("a" :> Zero) },
      u \in { <<>>, ("u" :> Obj(("n" :> Str("z")))) } }

\* position of the first {{/key}} after the first piece, 0 when there is none
FirstClose(tpl, key) ==
  LET closes == { j \in 2..Len(tpl) : tpl[j] = Close(key) } IN
  IF closes = {} THEN 0 ELSE CHOOSE j \in closes : \A l \in closes : j <= l

\* the second replace: {{key}} becomes String(value) unless value is undefined
RECURSIVE Variables(_, _)
Variables(pieces, ctx) ==
  IF pieces = <<>> THEN <<>>
  ELSE LET p == Head(pieces)
           value == getNestedProperty(ctx, p.key)
       IN (IF p.t = "var" /\ value.type # "undefined"
             THEN IF value.str = "" THEN <<>> ELSE <<Text(value.str)>>
             ELSE <<p>>)
          \o Variables(Tail(pieces), ctx)

RECURSIVE renderTemplate(_, _)
RECURSIVE Sections(_, _)
\* the first replace: {{#key}}content{{/key}} becomes the rendered content
\* when the value is truthy and nothing otherwise
Sections(tpl, ctx) ==
  IF tpl = <<>> THEN <<>>
  ELSE LET p == Head(tpl)
           j == IF p.t = "open" THEN FirstClose(tpl, p.key) ELSE 0
       IN IF j = 0
            THEN <<p>> \o Sections(Tail(tpl), ctx)
            ELSE (IF IsTruthy(getNestedProperty(ctx, p.key))
                    THEN renderTemplate(SubSeq(tpl, 2, j - 1), ctx)
                    ELSE <<>>)
                 \o Sections(SubSeq(tpl, j + 1, Len(tpl)), ctx)

\* mutant: the expression for the conditional blocks is kept between calls
\* with its lastIndex, so that a later rendering finds no block
renderTemplate_StickyRegex(template, ctx) ==
  IF renderings # <<>> THEN Variables(template, ctx)
  ELSE Variables(Sections(template, ctx), ctx)

renderTemplate(template, ctx) == Variables(Sections(template, ctx), ctx)

Rendering(ctx, output) == [context |-> ctx, output |-> output]

InitRender ==
  /\ rTemplate \in Templates
  /\ context \in Contexts
  /\ renderings = <<>>

\* renderTemplate(template, context) is called and returns
RenderTemplate ==
  /\ Len(renderings) < 2
  /\ renderings' = Append(renderings, Rendering(context, renderTemplate(rTemplate, context)))
  /\ UNCHANGED <<rTemplate, context>>
  /\ UNCHANGED nonRenVars

\* the caller builds the context of its next rendering
NextContext ==
  /\ Len(renderings) = 1
  /\ \E c \in Contexts : c # context /\ context' = c
  /\ UNCHANGED <<rTemplate, renderings>>
  /\ UNCHANGED nonRenVars

RenderNext ==
  \/ RenderTemplate
  \/ NextContext

RenderInit == InitRender /\ IdleLoop /\ IdleAct /\ IdleCas /\ IdleCnt /\ IdleReg /\ IdleVer /\ IdleStep /\ IdleGate /\ IdleChat

SpecRender == RenderInit /\ [][RenderNext]_vars

(***************************************************************************)
(* Concurrent generate calls at the back-off gate of one model.  In the    *)
(* counter client shouldSkip awaits getStats and then awaits increment,    *)
(* and recordError and recordSuccess await two counter operations each;    *)
(* other calls run between the awaits.  In the map client the gate and     *)
(* the bookkeeping are synchronous.                                        *)
(***************************************************************************)

CallerIds == {"g1", "g2"}

Health(e, sk, su) == [error |-> e, skip |-> sk, success |-> su]

Caller(pc_, errors, skips) == [pc |-> pc_, errors |-> errors, skips |-> skips]
IdleCaller == Caller("idle", 0, 0)

InitGate ==
  /\ gateClient \in Clients
  /\ health = Health(0, 0, 0)
  /\ callers = [c \in CallerIds |-> IdleCaller]

\* what the gate does with the totals errors and skips: TRUE = skip
GateSkips(errors, skips) == errors # 0 /\ skips < errors

\* models.js shouldSkip: getStats(key) returns the totals
GateReads(c) ==
  /\ gateClient = "counter"
  /\ callers[c].pc = "idle"
  /\ health.error < MaxErrors /\ health.success <= MaxSuccess
  /\ callers' = [callers EXCEPT ![c] = Caller("gate", health.error, health.skip)]
  /\ UNCHANGED <<gateClient, health>>
  /\ UNCHANGED nonGateVars

\* the gate decides: models.js from the totals read before, incrementing
\* skip now; llm.js from the map entry as it is now
GateDecides(c) ==
  /\ IF gateClient = "counter"
       THEN callers[c].pc = "gate"
       ELSE /\ callers[c].pc = "idle"
            /\ health.error < MaxErrors /\ health.success <= MaxSuccess
  /\ LET errors == IF gateClient = "counter" THEN callers[c].errors ELSE health.error
         skips  == IF gateClient = "counter" THEN callers[c].skips ELSE health.skip IN
     IF GateSkips(errors, skips)
       THEN /\ health' = [health EXCEPT !.skip = @ + 1]
            /\ callers' = [callers EXCEPT ![c] = IdleCaller]
       ELSE /\ callers' = [callers EXCEPT ![c] = Caller("request", 0, 0)]
            /\ UNCHANGED health
  /\ UNCHANGED gateClient
  /\ UNCHANGED nonGateVars

\* the request fails: recordFailure (llm.js), or the first half of
\* recordError (models.js): increment(key, 'error')
RequestFails(c) ==
  /\ callers[c].pc = "request"
  /\ IF gateClient = "map"
       THEN /\ health' = IF health.error = 0 THEN Health(1, 0, health.success)
                         ELSE IF health.skip >= health.error
                           THEN Health(health.error + 1, 0, health.success)
                         ELSE health
            /\ callers' = [callers EXCEPT ![c] = IdleCaller]
       ELSE /\ health' = [health EXCEPT !.error = @ + 1]
            /\ callers' = [callers EXCEPT ![c] = Caller("erroring", 0, 0)]
  /\ UNCHANGED gateClient
  /\ UNCHANGED nonGateVars

\* the second half of recordError: reset(key, ['skip'])
ErrorResetsSkip(c) ==
  /\ callers[c].pc = "erroring"
  /\ health' = [health EXCEPT !.skip = 0]
  /\ callers' = [callers EXCEPT ![c] = IdleCaller]
  /\ UNCHANGED gateClient
  /\ UNCHANGED nonGateVars

\* the request succeeds: modelFailures.delete (llm.js), or the first half
\* of recordSuccess (models.js): reset(key, ['error', 'skip'])
RequestSucceeds(c) ==
  /\ callers[c].pc = "request"
  /\ IF gateClient = "map"
       THEN /\ health' = Health(0, 0, health.success + 1)
            /\ callers' = [callers EXCEPT ![c] = IdleCaller]
       ELSE /\ health' = Health(0, 0, health.success)
            /\ callers' = [callers EXCEPT ![c] = Caller("succeeding", 0, 0)]
  /\ UNCHANGED gateClient
  /\ UNCHANGED nonGateVars

\* the second half of recordSuccess: increment(key, 'success')
SuccessCounted(c) ==
  /\ callers[c].pc = "succeeding"
  /\ health' = [health EXCEPT !.success = @ + 1]
  /\ callers' = [callers EXCEPT ![c] = IdleCaller]
  /\ UNCHANGED gateClient
  /\ UNCHANGED nonGateVars

GateNext ==
  \/ \E c \in CallerIds : GateReads(c)
  \/ \E c \in CallerIds : GateDecides(c)
  \/ \E c \in CallerIds : RequestFails(c)
  \/ \E c \in CallerIds : ErrorResetsSkip(c)
  \/ \E c \in CallerIds : RequestSucceeds(c)
  \/ \E c \in CallerIds : SuccessCounted(c)

GateInit == InitGate /\ IdleLoop /\ IdleAct /\ IdleCas /\ IdleCnt /\ IdleReg /\ IdleVer /\ IdleStep /\ IdleRen /\ IdleChat

SpecGate == GateInit /\ [][GateNext]_vars

(***************************************************************************)
(* The side panel: sendMessage and the paths that call it                  *)
(***************************************************************************)

MaxSends == 3    \* sendMessage calls that get past the empty-input check

Texts == {"a", "b"}

InitChat ==
  /\ messageInput = "" /\ sendDisabled = FALSE /\ messageHistory = <<>>
  /\ preparing = 0 /\ inFlight = 0 /\ responses = 0

\* the user edits the message input
TypeMessage ==
  /\ \E text \in Texts : messageInput # text /\ messageInput' = text
  /\ UNCHANGED <<sendDisabled, messageHistory, preparing, inFlight, responses>>
  /\ UNCHANGED nonChatVars

\* sendMessage() up to its first await: an empty input returns at once
sendMessage ==
  /\ messageInput # ""
  /\ preparing + inFlight + responses < MaxSends
  /\ messageHistory' =
       IF messageHistory # <<>> /\ messageHistory[Len(messageHistory)] = messageInput
         THEN messageHistory ELSE Append(messageHistory, messageInput)
  /\ messageInput' = ""
  /\ sendDisabled' = TRUE
  /\ preparing' = preparing + 1
  /\ UNCHANGED <<inFlight, responses>>
  /\ UNCHANGED nonChatVars

\* a click on the send button; a disabled button dispatches no click
ClickSend == ~sendDisabled /\ sendMessage

\* Enter without Shift in the message input
PressEnter == sendMessage

\* setStatus and logAction are done: chrome.runtime.sendMessage(processMessage)
RequestSent ==
  /\ preparing > 0
  /\ preparing' = preparing - 1
  /\ inFlight' = inFlight + 1
  /\ UNCHANGED <<messageInput, sendDisabled, messageHistory, responses>>
  /\ UNCHANGED nonChatVars

\* the background answers one request: the response is shown and the
\* finally block enables the send button
ResponseArrives ==
  /\ inFlight > 0
  /\ inFlight' = inFlight - 1
  /\ responses' = responses + 1
  /\ sendDisabled' = FALSE
  /\ UNCHANGED <<messageInput, messageHistory, preparing>>
  /\ UNCHANGED nonChatVars

ChatNext ==
  \/ TypeMessage
  \/ ClickSend
  \/ PressEnter
  \/ RequestSent
  \/ ResponseArrives

ChatInit == InitChat /\ IdleLoop /\ IdleAct /\ IdleCas /\ IdleCnt /\ IdleReg /\ IdleVer /\ IdleStep /\ IdleRen /\ IdleGate

SpecChat == ChatInit /\ [][ChatNext]_vars

(***************************************************************************)
(* Properties of the multi-turn loop                                       *)
(***************************************************************************)
HasCalls(m) == m.role = "assistant" /\ Len(m.tool_calls) > 0

\* positions of the tool messages answering tool_call_id id
Answers(conv, id) ==
  {j \in 1..Len(conv) : conv[j].role = "tool" /\ conv[j].tool_call_id = id}

CallIds(conv) ==
  UNION {{conv[a].tool_calls[c] : c \in 1..Len(conv[a].tool_calls)} : a \in 1..Len(conv)}

C2_IterationBound ==
  /\ modelCalls <= max_iterations
  /\ synthRuns <= 1
  /\ (synthRuns = 1 => modelCalls = max_iterations /\ i = max_iterations)
  /\ ((pc \in {"synth", "returned", "threw"} /\ i = max_iterations) => synthRuns = 1)
  /\ ((pc \in {"returned", "threw"} /\ i = max_iterations /\ stopRuns = 0)
        => stopRuns + synthRuns = 1)

C2_Witness ==
  /\ pc = "threw" /\ synthRuns = 1 /\ stopRuns = 0
  /\ max_iterations > 1 /\ modelCalls = max_iterations

\* C3: between bursts (the loop has not terminated), every tool call of every
\* assistant tool_calls message of the persisted conversation is answered by
\* a tool message that follows it.
C3_ToolResponsePairing ==
  pc = "turn" =>
    \A a \in 1..Len(conversation) :
      HasCalls(conversation[a]) =>
        \A c \in 1..Len(conversation[a].tool_calls) :
          \E j \in Answers(conversation, conversation[a].tool_calls[c]) : j > a

\* the assistant tool_calls messages that still have an unanswered call
Outstanding(conv) ==
  {a \in 1..Len(conv) :
     /\ HasCalls(conv[a])
     /\ \E c \in 1..Len(conv[a].tool_calls) : Answers(conv, conv[a].tool_calls[c]) = {}}

\* C4: at every point at most one assistant tool_calls message has unanswered
\* calls, and no tool_call_id is answered by more than one tool message.
C4_SingleOutstanding ==
  /\ Cardinality(Outstanding(conversation)) <= 1
  /\ \A id \in CallIds(conversation) : Cardinality(Answers(conversation, id)) <= 1

\* C10: once the iterations are exhausted and the synthetic stop call has
\* settled, the loop has returned normally with the unwrapped stop result.
C10_ExhaustionReturnsNormally ==
  (synthRuns = 1 /\ pc # "synth") =>
     /\ pc = "returned"
     /\ retval = ReturnValue(variant, stopResult)

(***************************************************************************)
(* Properties of executeAction                                             *)
(***************************************************************************)
\* typeof of a value, with arrays told apart (Array.isArray)
RuntimeKind(v) == IF v = "null" THEN "object" ELSE v

\* the parameter check of the design: required fields present and not
\* undefined, every present field of the declared runtime kind
FailsInputSchema(a, p) ==
  /\ a.input_schema.declared
  /\ \/ \E f \in a.input_schema.required : f \notin DOMAIN p \/ p[f] = "undefined"
     \/ \E key \in (DOMAIN a.input_schema.properties) \cap (DOMAIN p) :
          /\ p[key] # "undefined"
          /\ RuntimeKind(p[key]) # a.input_schema.properties[key]

\* C5: an input that fails the action's input_schema makes executeAction
\* raise a Validation error without any step having been started.
C5_ValidationPrecedence ==
  (FailsInputSchema(action, params) /\ apc # "start") =>
     /\ apc = "failed"
     /\ aerror = "Validation"
     /\ stepLog = <<>>

C5_Witness ==
  /\ FailsInputSchema(action, params) /\ apc = "failed" /\ aerror = "Validation"
  /\ action.steps > 1
  /\ \A f \in action.input_schema.required : f \in DOMAIN params

Succeeded(e) == e.out # Pending /\ e.out # Threw

\* C6: the started steps are steps 0..n-1 in order; step 0 receives null and
\* step j the value step j-1 returned; a step is started only after all
\* earlier ones succeeded, and it is started as soon as they have.
C6_StepLinearity ==
  /\ \A j \in 1..Len(stepLog) :
       /\ stepLog[j].idx = j - 1
       /\ (j = 1 => stepLog[j].prev = NullResult)
       /\ (j > 1 => Succeeded(stepLog[j - 1]) /\ stepLog[j].prev = stepLog[j - 1].out)
  /\ (Len(stepLog) > 0 /\ Succeeded(stepLog[Len(stepLog)]))
        => (Len(stepLog) = action.steps /\ apc = "done")
  /\ (apc = "done" => Len(stepLog) = action.steps)
  /\ (apc = "failed" /\ aerror = "StepFailed" => stepLog[Len(stepLog)].out = Threw)
  /\ (apc # "start" /\ aerror # "Validation" /\ action.steps > 0 => Len(stepLog) > 0)

C6_Witness ==
  /\ apc = "done" /\ Len(stepLog) = 3
  /\ stepLog[2].prev # stepLog[3].prev
  /\ stepLog[3].prev = stepLog[2].out

(***************************************************************************)
(* Properties of the cascade                                               *)
(***************************************************************************)
Done == gpc = "ready" /\ outcome # "none"

InCascade == {cascadingModels[j] : j \in 1..Len(cascadingModels)}

\* the failure injector fails exactly the first kk entries of the cascade
FirstFail(kk) ==
  /\ Len(cascadingModels) = 3
  /\ failing \cap InCascade = {cascadingModels[j] : j \in 1..kk}

CascadeResult(kk) ==
  /\ outcome = cascadingModels[kk + 1]
  /\ \A j \in 1..kk :
       stats[cascadingModels[j]].error = startStats[cascadingModels[j]].error + 1
  /\ stats[cascadingModels[kk + 1]].error = 0
  /\ stats[cascadingModels[kk + 1]].skip = 0

InBackoffAtStart(m) ==
  startStats[m].error > 0 /\ startStats[m].skip < startStats[m].error

GateRule ==
  (gpc = "primary" /\ pos <= Len(cascadingModels) /\ (pos' # pos \/ gpc' # gpc)) =>
    LET m == cascadingModels[pos] IN
    IF stats[m].skip < stats[m].error
      THEN /\ attempts' = attempts
           /\ stats'[m].skip = stats[m].skip + 1
           /\ stats'[m].error = stats[m].error
      ELSE /\ Len(attempts') = Len(attempts) + 1
           /\ attempts'[Len(attempts')].model = m

SingleInBackoff ==
  /\ Done /\ Len(cascadingModels) = 1
  /\ InBackoffAtStart(cascadingModels[1])

\* with only that model in the cascade, a call made while skips < errors
\* adds one to skips and does nothing else
SingleSkipOnly ==
  SingleInBackoff =>
    /\ stats[cascadingModels[1]].skip = startStats[cascadingModels[1]].skip + 1
    /\ stats[cascadingModels[1]].error = startStats[cascadingModels[1]].error
    /\ attempts = <<>>

Attempted(m) == \E j \in 1..Len(attempts) : attempts[j].model = m

FallbackAttempts == SelectSeq(attempts, LAMBDA a : a.pass = "fallback")
PrimaryAttempts  == SelectSeq(attempts, LAMBDA a : a.pass = "primary")

AllConfigured == ConcatTiers(models, 1)

\* C9: the fallback pass starts only when no primary request succeeded; it
\* walks every configured model of every tier once, ordered by errors in the
\* last hour ascending, sends a request to each without consulting the gate,
\* and returns the first success.
C9_FallbackPass ==
  /\ (client = "counter" /\ Done /\ \A j \in 1..Len(attempts) : ~attempts[j].ok)
        => (sortedModels # <<>> \/ AllConfigured = <<>>)
  /\ (sortedModels # <<>>) =>
       /\ \A j \in 1..Len(PrimaryAttempts) : ~PrimaryAttempts[j].ok
       /\ Len(sortedModels) = Len(AllConfigured)
       /\ \A m \in AllModels :
            Cardinality({j \in 1..Len(sortedModels) : sortedModels[j] = m})
              = Cardinality({j \in 1..Len(AllConfigured) : AllConfigured[j] = m})
       /\ \A a, b \in 1..Len(sortedModels) :
            a < b => sortStats[sortedModels[a]].recent <= sortStats[sortedModels[b]].recent
       /\ Len(FallbackAttempts) <= Len(sortedModels)
       /\ \A j \in 1..Len(FallbackAttempts) :
            /\ FallbackAttempts[j].model = sortedModels[j]
            /\ FallbackAttempts[j].ok = (sortedModels[j] \notin failing)
            /\ FallbackAttempts[j].ok =>
                 (j = Len(FallbackAttempts) /\ Done /\ outcome = sortedModels[j])
       /\ (Done /\ outcome = "AllFailed") => Len(FallbackAttempts) = Len(sortedModels)
       /\ (gpc = "fallback" => Len(FallbackAttempts) = pos - 1)

C9_Witness ==
  /\ Done /\ sortedModels # <<>> /\ sortedModels # AllConfigured
  /\ outcome \in skipped
  /\ Len(FallbackAttempts) >= 2

(***************************************************************************)
(* Recoverable tool-call errors                                            *)
(***************************************************************************)
Contains(conv, m) == \E j \in 1..Len(conv) : conv[j] = m

\* tool messages of conv that carry one of the given contents
ToolMsgsWith(conv, contents) ==
  {conv[j] : j \in {l \in 1..Len(conv) : conv[l].role = "tool" /\ conv[l].content \in contents}}

\* the awaited executeAction of a tool call settles with an error: the error
\* is the tool message for that call, Validation in its own form
ExecFailureFedBack ==
  LET m == conversation'[Len(conversation')] IN
  /\ m.role = "tool" /\ m.tool_call_id = CurrentCall.id
  /\ m.content = IF CurrentValid THEN "err_other" ELSE "err_validation"
  /\ pc' = "turn" /\ i' = i + 1 /\ thrown' = "none"

ExecSuccess ==
  \/ pc' = "returned" /\ CurrentCall.name = stop_action /\ CurrentValid
  \/ /\ Contains(conversation', ToolMsg(CurrentCall.id, "result"))
     /\ CurrentValid /\ pc' \in {"turn", "exec"}

\* every settling of an awaited tool call is a success or a fed-back error
ExecRule ==
  (ToolLoop /\ pc = "exec" /\ pc' # pc) => (ExecSuccess \/ ExecFailureFedBack)

\* a tool call rejected before execution (arguments are not JSON, unknown
\* action) is answered with a tool message and the iteration ends
ScanRule ==
  (ToolLoop /\ ToolMsgsWith(conversation', {"err_json", "err_notfound"})
                 # ToolMsgsWith(conversation, {"err_json", "err_notfound"}))
    => (pc' = "turn" /\ i' = i + 1 /\ thrown' = "none")

\* inside the iterations only an error of the model call leaves the loop
OnlyModelErrorsLeave ==
  (ToolLoop /\ pc = "threw" /\ synthRuns = 0) => thrown \in {"ProviderError", "Timeout"}

\* C11 as stated: a tool call that fails with a recoverable error never
\* terminates the loop; the error becomes the tool message of that call and
\* the model is called again in the next turn.
C11_ErrorFeedback ==
  /\ []OnlyModelErrorsLeave
  /\ [][ExecRule /\ ScanRule]_vars
  /\ [][(ToolLoop /\ pc = "exec" /\ pc' # pc /\ ~ExecSuccess)
          => (pc' = "turn" /\ i' < max_iterations)]_vars

\* C11 amended: such a failure never terminates the loop by itself; the
\* error becomes the tool message of that call and the loop goes on to its
\* next iteration, which calls the model again when an iteration is left.
C11_ErrorFeedbackNextIteration ==
  /\ []OnlyModelErrorsLeave
  /\ [][ExecRule /\ ScanRule]_vars

C11_Witness ==
  /\ ToolLoop /\ pc = "exec" /\ modelCalls = 2
  /\ ToolMsgsWith(conversation, {"err_validation"}) # {}
  /\ Len(conversation) = 5

(***************************************************************************)
(* Properties of the health counter                                        *)
(***************************************************************************)
LastOf(seq) == seq[Len(seq)]

\* the step applies an increment e2; e1 is the increment applied before it
RollUpRule ==
  (incLog' # incLog) =>
    LET e2 == LastOf(incLog')
        b  == data'[<<e2.key, e2.counter>>] IN
    /\ \A j \in 1..Len(b.minute) : b.minute[j].ts >= e2.at - 60 * 60
    /\ (/\ incLog # <<>>
        /\ ~clobbered'
        /\ LastOf(incLog).key = e2.key /\ LastOf(incLog).counter = e2.counter
        /\ e2.at = LastOf(incLog).at + 61 * 60)
        => \E j \in 1..Len(b.hour) :
              /\ b.hour[j].ts = (LastOf(incLog).at \div 3600) * 3600
              /\ b.hour[j].count >= LastOf(incLog).amount

\* C12: after an increment at t followed by one at t + 61 min (of the same
\* key and counter), no minute bucket older than 60 minutes remains and the
\* first count is in the hour bucket with timestamp floor(t / hour) * hour.
C12_MinuteRollUp == [][RollUpRule]_vars

C12_Witness ==
  /\ Len(incLog) = 2 /\ ~clobbered
  /\ incLog[1].key = incLog[2].key /\ incLog[1].counter = incLog[2].counter
  /\ incLog[2].at = incLog[1].at + 61 * 60
  /\ incLog[1].at = 2 * DAY + 59 * MINUTE + 30
  /\ Len(data[<<incLog[2].key, incLog[2].counter>>].hour) = 1
  /\ Len(data[<<incLog[2].key, incLog[2].counter>>].minute) = 1

\* the sum of the amounts of the increments applied to a key and counter
RECURSIVE LogSum(_, _)
LogSum(log, kc) ==
  IF log = <<>> THEN 0
  ELSE (IF <<Head(log).key, Head(log).counter>> = kc THEN Head(log).amount ELSE 0)
       + LogSum(Tail(log), kc)

\* C13: whatever the interleaving of the increment calls of concurrent
\* tasks, once they have all returned the total held for each key and
\* counter, in memory and in the storage, is the sum of the amounts.
C13_NoLostIncrement ==
  (InFlight = {}) =>
    \A kc \in CounterKeys \X Metrics :
      /\ sumBuckets(data[kc], 0) = LogSum(incLog, kc)
      /\ sumBuckets(stored[kc], 0) = LogSum(incLog, kc)

(***************************************************************************)
(* Properties of the registered actions                                    *)
(***************************************************************************)
\* C14: every LLM step of every registered action has exactly one output
\* mode: an output schema or a tool choice, never both and never neither.
C14_SingleOutputMode ==
  /\ (wpc = "step" /\ IsLLM(CurrentStep)) =>
        (HasSchema(CurrentStep) # HasChoice(CurrentStep))
  /\ \A f \in failed :
        f.msg \notin {"LLM step must have either output_schema or tool_choice",
                      "LLM step cannot have both output_schema and tool_choice"}

C14_Witness ==
  /\ build = "index" /\ wpc = "step" /\ CurrentName = BROWSER_ACTION
  /\ IsLLM(CurrentStep) /\ HasChoice(CurrentStep) /\ ~HasSchema(CurrentStep)
  /\ failed = {}

\* C15: every tool choice declared by a registered action names a stop
\* action that is one of its available actions and declares a
\* max_iterations that is a number of at least 1.
C15_ToolChoiceWellFormed ==
  (wpc = "choice") =>
     /\ CurrentChoice.stop_action # ""
     /\ \E j \in 1..Len(CurrentChoice.available_actions) :
          CurrentChoice.available_actions[j] = CurrentChoice.stop_action
     /\ Len(CurrentChoice.max_iterations) = 1
     /\ CurrentChoice.max_iterations[1] >= 1

FirstPresent(r) ==
  IF r.message # ABSENT THEN Ret("string", r.message, NullResult)
  ELSE IF r.response # ABSENT THEN Ret("string", r.response, NullResult)
  ELSE Ret("json", ABSENT, r)

\* the first of the named fields of r that is not empty
FirstNonEmpty(r) ==
  IF r.message \notin {ABSENT, ""} THEN Ret("string", r.message, NullResult)
  ELSE IF r.response \notin {ABSENT, ""} THEN Ret("string", r.response, NullResult)
  ELSE Ret("json", ABSENT, r)

ReturnedStop == pc = "returned" /\ stopResult # NullResult

ToolChoiceErrors ==
  {MsgToolChoiceParam, MsgToolChoiceWords, MsgToolsNotSupported, MsgNotSupportedTool}

TierAndLower(cfg, L) ==
  CASE L = "HIGH"   -> cfg["HIGH"] \o cfg["MEDIUM"] \o cfg["LOW"]
    [] L = "MEDIUM" -> cfg["MEDIUM"] \o cfg["LOW"]
    [] L = "LOW"    -> cfg["LOW"]

\* the entries of the tiers above L
TiersAbove(cfg, L) ==
  CASE L = "HIGH"   -> {}
    [] L = "MEDIUM" -> {cfg["HIGH"][j] : j \in 1..Len(cfg["HIGH"])}
    [] L = "LOW"    -> {cfg["HIGH"][j] : j \in 1..Len(cfg["HIGH"])} \cup
                       {cfg["MEDIUM"][j] : j \in 1..Len(cfg["MEDIUM"])}

\* the entries the primary pass has visited so far: skipped or requested
VisitedCount == Len(PrimaryAttempts) + Cardinality(skipped)

\* C20: for a request at level L the primary pass walks the entries of tier
\* L followed by those of every lower tier (HIGH, MEDIUM, LOW), each tier in
\* configured order, and never an entry of a tier above L.
C20_PrimaryPassTiers ==
  (requested # "none") =>
    /\ cascadingModels = TierAndLower(models, requested)
    /\ VisitedCount <= Len(cascadingModels)
    /\ LET visited == SubSeq(TierAndLower(models, requested), 1, VisitedCount) IN
         /\ skipped \subseteq {visited[j] : j \in 1..Len(visited)}
         /\ [j \in 1..Len(PrimaryAttempts) |-> PrimaryAttempts[j].model]
              = SelectSeq(visited, LAMBDA m : m \notin skipped)
    /\ \A j \in 1..Len(PrimaryAttempts) :
         PrimaryAttempts[j].model \notin TiersAbove(models, requested)
    /\ skipped \cap TiersAbove(models, requested) = {}

C20_Witness ==
  /\ requested = "MEDIUM" /\ models = Tiers(<<"m1">>, <<"m2">>, <<"m3">>)
  /\ gpc = "ready" /\ outcome = "m3"
  /\ Len(PrimaryAttempts) = 2 /\ PrimaryAttempts[1].model = "m2"

(***************************************************************************)
(* Properties of the steps of an action                                    *)
(***************************************************************************)
\* C21: every step, procedural or LLM, runs under its own STEP_TIMEOUT
\* timer: a step that has not completed STEP_TIMEOUT after it started is
\* failed with a Timeout error, so no step is still running later than that.
C21_StepTimeout ==
  spc \in PendingStates => sClock <= STEP_TIMEOUT

\* the sub-action step of the outer action named a registered action whose
\* input validation rejected the params
SubActionInvalid ==
  /\ sStep.kind = "action"
  /\ sStep.action \in DOMAIN actionsRegistry
  /\ ~Valid(sStep.params, actionsRegistry[sStep.action].input_schema)

\* C28: when a sub-action run from a step of an outer action fails input
\* validation, the error leaving the outer action is of kind Validation and
\* carries the validation messages.
C28_SubActionValidation ==
  (spc = "failed" /\ SubActionInvalid) =>
     (sError.isValidationError /\ sError.validationErrors)

(***************************************************************************)
(* Properties of the reads of the health counter                           *)
(***************************************************************************)
\* a step in which a getStats call returns
ReadReturns == reads' # reads

\* C22: a read of the health counter leaves every bucket of every key and
\* metric unchanged, whenever it is called: the step in which getStats
\* returns changes neither the stored value nor, once the counter is
\* loaded, this.data.
C22_ReadsLeaveBuckets ==
  [][ReadReturns => (stored' = stored /\ (loaded => data' = data))]_vars

(***************************************************************************)
(* Properties of template rendering                                        *)
(***************************************************************************)
\* C23: rendering replaces every variable tag whose name is not defined in
\* the context with the empty string: no such tag is left in the output.
C23_UndefinedRendersEmpty ==
  \A n \in 1..Len(renderings) :
    LET e == renderings[n] IN
    \A j \in 1..Len(e.output) :
      e.output[j].t = "var" =>
        getNestedProperty(e.context, e.output[j].key).type # "undefined"

\* two renderings of the template under the same context gave the same output
SameInputsSameOutput ==
  \A m, n \in 1..Len(renderings) :
    renderings[m].context = renderings[n].context =>
      renderings[m].output = renderings[n].output

\* a step that renders leaves the context as it was
RenderingKeepsContext == renderings' # renderings => context' = context

ResultAt(j) ==
  CHOOSE p \in Answers(conversation, toolCalls[j].id) : conversation[p].content = "result"

\* while call k of the message runs, the calls before it have finished with
\* a result, their results lie in the order of the calls, and no call from
\* k on has an answer: none of them ran before k, none failed
RunsInListedOrder ==
  (ToolLoop /\ pc = "exec") =>
    /\ \A j \in 1..(k - 1) :
         /\ Cardinality(Answers(conversation, toolCalls[j].id)) = 1
         /\ \E p \in Answers(conversation, toolCalls[j].id) : conversation[p].content = "result"
    /\ \A j, l \in 1..(k - 1) : j < l => ResultAt(j) < ResultAt(l)
    /\ \A j \in k..Len(toolCalls) : Answers(conversation, toolCalls[j].id) = {}

\* a call of the message starts in the step in which the call before it
\* returns its result
StartsAfterPrevious ==
  (ToolLoop /\ pc = "exec" /\ pc' = "exec" /\ <<i, k, toolCalls>>' # <<i, k, toolCalls>>) =>
    /\ i' = i /\ k' = k + 1
    /\ Ids(toolCalls') = Ids(toolCalls)
    /\ conversation' = Append(conversation, ToolMsg(toolCalls[k].id, "result"))

\* the step in which a call of the message fails ends the message: the
\* next thing the loop does is its next iteration
FailureEndsMessage ==
  (ToolLoop /\ ToolMsgsWith(conversation', {"err_json", "err_notfound", "err_validation", "err_other"})
                 # ToolMsgsWith(conversation, {"err_json", "err_notfound", "err_validation", "err_other"}))
    => (pc' = "turn" /\ toolCalls' = <<>> /\ toolRuns' = toolRuns /\ stopRuns' = stopRuns)

\* C25: within one assistant message the tool calls are executed one at a
\* time in the order the model listed them, a later call starting only
\* after the earlier one has finished, and after the first call that fails
\* no later call of that message is executed.
C25_SerialToolCalls ==
  []RunsInListedOrder /\ [][StartsAfterPrevious /\ FailureEndsMessage]_vars

\* the second call of a message is running after the first one finished
C25_Witness ==
  /\ variant = "serial" /\ pc = "exec" /\ k = 2
  /\ Contains(conversation, ToolMsg(toolCalls[1].id, "result"))

(***************************************************************************)
(* Properties of a failing model call                                      *)
(***************************************************************************)
\* a step in which the model call of a turn is made and brings no response:
\* every response adds a message to the conversation
ModelCallFailed == modelCalls' = modelCalls + 1 /\ conversation' = conversation

\* the failure leaves the loop at once: no stop action is invoked and no
\* value is returned
FailurePropagates ==
  ModelCallFailed =>
    /\ pc' = "threw" /\ thrown' \in {"ProviderError", "Timeout"}
    /\ retval' = NoRet /\ stopResult' = NullResult
    /\ <<stopRuns, synthRuns, toolRuns>>' = <<stopRuns, synthRuns, toolRuns>>

\* after the error has left the loop nothing more happens in it
NothingAfterThrow == pc = "threw" => loopVars' = loopVars

\* C26: if the model call of a turn fails (cascade exhausted or LLM_TIMEOUT
\* exceeded), the failure propagates out of the multi-turn loop: no later
\* turn runs, the stop action is not invoked, and no result is returned.
C26_ModelFailurePropagates ==
  /\ [][FailurePropagates /\ NothingAfterThrow]_vars
  /\ []((pc = "threw" /\ thrown \in {"ProviderError", "Timeout"}) => retval = NoRet)

\* the model call of the second turn timed out
C26_Witness ==
  /\ pc = "threw" /\ thrown = "Timeout" /\ modelCalls = 2 /\ i = 1
  /\ retval = NoRet /\ synthRuns = 0

(***************************************************************************)
(* Properties of a failing generate call                                   *)
(***************************************************************************)
Configured == {AllConfigured[j] : j \in 1..Len(AllConfigured)}

FailedAttempt(m) == \E j \in 1..Len(attempts) : attempts[j].model = m /\ ~attempts[j].ok

\* the call ended with the all-models-failed error
AllFailed == Done /\ outcome = "AllFailed"

\* every configured model got a request in this call, and it failed
EveryModelFailed == attempts # <<>> /\ \A m \in Configured : FailedAttempt(m)

ModelCalled == modelCalls' = modelCalls + 1

\* seq without its messages equal to BrowserMsg
RECURSIVE WithoutBrowserState(_)
WithoutBrowserState(seq) ==
  IF seq = <<>> THEN <<>>
  ELSE IF Head(seq) = BrowserMsg THEN WithoutBrowserState(Tail(seq))
  ELSE <<Head(seq)>> \o WithoutBrowserState(Tail(seq))

\* the persisted conversation holds no browser-state message
NoBrowserStatePersisted == \A j \in 1..Len(conversation) : conversation[j] # BrowserMsg

\* after is before with d messages removed after position 2 and then
\* some messages appended
AppendedAndPruned(before, after, d) ==
  LET kept == SubSeq(before, 1, 2) \o SubSeq(before, 3 + d, Len(before)) IN
  /\ Len(after) >= Len(kept)
  /\ SubSeq(after, 1, Len(kept)) = kept

\* a step changes the conversation only by appending and pruning
OnlyAppendsAndPruning ==
  \E d \in 0..Len(conversation) : AppendedAndPruned(conversation, conversation', d)

\* the view of a model call is the conversation plus one browser-state message
ViewIsConversationPlusState ==
  ModelCalled =>
    /\ WithoutBrowserState(view') = conversation
    /\ Len(view') = Len(conversation) + 1

\* C29: building the current-turn view never changes the persisted
\* conversation: the persisted conversation never contains a browser-state
\* message, and a step changes it only by the messages it appends and by
\* pruning.
C29_ViewLeavesConversation ==
  /\ []NoBrowserStatePersisted
  /\ [][(pc # "idle") => (OnlyAppendsAndPruning /\ ViewIsConversationPlusState)]_vars

\* C29 witness: a second model call was given a view with the browser state
\* before the last user message, and the conversation has grown without it
C29_Witness ==
  /\ modelCalls = 2
  /\ Len(conversation) >= 4
  /\ \E j \in 2..(Len(view) - 1) : view[j] = BrowserMsg /\ view[j + 1].role = "user"
  /\ NoBrowserStatePersisted


(***************************************************************************)
(* Properties of pruning                                                   *)
(***************************************************************************)

\* the last n messages of seq
MostRecent(seq, n) == SubSeq(seq, Len(seq) - n + 1, Len(seq))

\* after is unpruned as it is, or unpruned has more than 12 messages and
\* after is its messages 0 and 1 followed by its most recent messages
PrunedFrom(unpruned, after) ==
  \/ after = unpruned
  \/ /\ Len(unpruned) > 12
     /\ Len(after) < Len(unpruned)
     /\ Len(after) > 2
     /\ SubSeq(after, 1, 2) = <<SystemMsg, UserMsg("initial")>>
     /\ SubSeq(after, 1, 2) = SubSeq(unpruned, 1, 2)
     /\ SubSeq(after, 3, Len(after)) = MostRecent(unpruned, Len(after) - 2)

\* the iteration appended a messages and then pruned as PrunedFrom allows
IterationPrunes ==
  \E a \in 1..(MaxCalls + 1) :
    /\ a <= Len(conversation')
    /\ PrunedFrom(conversation \o MostRecent(conversation', a), conversation')

\* C30: in the tool-call loops pruning happens only when the conversation
\* has more than 12 messages, and it keeps the system message, the first
\* user message and the most recent messages in their order, removing only
\* messages in between.
C30_PruningKeepsEnds == [][(ToolLoop /\ pc = "turn") => IterationPrunes]_vars

\* C30 witness: a tool-call loop has pruned: the conversation, which cannot
\* shrink otherwise, is shorter than two messages a turn would make it
C30_Witness ==
  /\ ToolLoop /\ pc = "turn" /\ max_iterations = MaxTurns
  /\ Len(conversation) = 10
  /\ i >= 5
  /\ conversation[3] # conversation[1] /\ conversation[3].role # "system"


(***************************************************************************)
(* Properties of a response without tool calls                             *)
(***************************************************************************)

\* the step is a model call of a tool-call loop that returned, and its
\* response carried no tool call (no tool-call id was handed out)
TextResponse == ToolLoop /\ ModelCalled /\ pc' # "threw" /\ nextId' = nextId

\* C31: when the response carries no tool_calls the loop executes no action
\* in that turn, appends the assistant's text and a user-role reminder to
\* the persisted conversation, and continues with the next turn, which
\* counts against max_iterations.
C31_TextResponseContinues ==
  [][TextResponse =>
       /\ toolRuns' = toolRuns /\ stopRuns' = stopRuns /\ synthRuns' = synthRuns
       /\ conversation' = conversation \o <<TextMsg("text"), UserMsg("reminder")>>
       /\ pc' = "turn"
       /\ i' = i + 1
       /\ retval' = retval]_vars

\* C31 witness: two text responses used up two iterations and ran nothing
C31_Witness ==
  /\ ToolLoop /\ pc = "turn"
  /\ i = 2 /\ modelCalls = 2
  /\ conversation = <<SystemMsg, UserMsg("initial"), TextMsg("text"), UserMsg("reminder"),
                      TextMsg("text"), UserMsg("reminder")>>
  /\ toolRuns = 0 /\ stopRuns = 0


(***************************************************************************)
(* Properties of the tiers after an increment                              *)
(***************************************************************************)

\* no bucket of list is older than cutoff
NoneOlder(list, cutoff) == \A j \in 1..Len(list) : list[j].ts >= cutoff

\* the buckets b hold nothing past the retention of its tier at time t
WithinRetention(b, t) ==
  /\ NoneOlder(b.minute, t - 60 * MINUTE)
  /\ NoneOlder(b.hour, t - 24 * HOUR)
  /\ NoneOlder(b.day, t - 30 * DAY)

\* the increment the step has applied
Applied == incLog'[Len(incLog')]

\* C32: immediately after every increment the incremented key and metric
\* has no minute bucket older than 60 minutes, no hour bucket older than 24
\* hours and no day bucket older than 30 days.
C32_TiersWithinRetention ==
  [][incLog' # incLog =>
       WithinRetention(data'[<<Applied.key, Applied.counter>>], now)]_vars

\* C32 witness: an increment was applied to a metric that was incremented
\* more than 30 days before, and the metric holds the new minute bucket only
C32_Witness ==
  /\ Len(incLog) >= 2
  /\ LET e == incLog[Len(incLog)]
         b == data[<<e.key, e.counter>>] IN
     /\ e.at = now
     /\ \E j \in 1..(Len(incLog) - 1) :
          /\ incLog[j].key = e.key /\ incLog[j].counter = e.counter
          /\ incLog[j].at < now - 30 * DAY
     /\ Len(b.minute) = 1 /\ b.hour = <<>> /\ b.day = <<>>

(***************************************************************************)
(* Properties of the total of a counter                                    *)
(***************************************************************************)

\* the increments of log made to key and counter
IncrementsOf(log, key, counter) ==
  SelectSeq(log, LAMBDA e : e.key = key /\ e.counter = counter)

\* the amounts of log whose day is not older than 30 days at time t
RECURSIVE AmountsSince(_, _)
AmountsSince(log, cutoff) ==
  IF log = <<>> THEN 0
  ELSE (IF getBucketTs(Head(log).at, DAY) >= cutoff THEN Head(log).amount ELSE 0)
         + AmountsSince(Tail(log), cutoff)

\* the total reported for key and counter is the sum of the amounts
\* incremented, less those of days dropped by the latest increment
TotalIsSumLessDropped(key, counter) ==
  LET log == IncrementsOf(incLog, key, counter) IN
  log # <<>> =>
    sumBuckets(data[<<key, counter>>], 0)
      = AmountsSince(log, log[Len(log)].at - 30 * DAY)

\* C35: rolling buckets up never changes a counter's total: after any
\* sequence of increments at non-decreasing times the total of a key and
\* metric is the sum of the incremented amounts minus only the counts of
\* day buckets dropped for being older than 30 days.
C35_RollUpKeepsTotal ==
  \A key \in CounterKeys, counter \in Metrics : TotalIsSumLessDropped(key, counter)

\* C35 witness: a metric has a count rolled up into the day tier and a
\* count in the minute tier, and the count of an older day has been dropped
C35_Witness ==
  \E key \in CounterKeys, counter \in Metrics :
    LET b == data[<<key, counter>>]
        log == IncrementsOf(incLog, key, counter) IN
    /\ Len(log) >= 3
    /\ b.minute # <<>> /\ b.day # <<>>
    /\ sumBuckets(b, 0) < AmountsSince(log, 0)


(***************************************************************************)
(* Properties of the tool messages of the conversation                     *)
(***************************************************************************)

\* message j of conv is a tool message answering a call of an assistant
\* tool_calls message that stands before it in conv
AnswersEarlierCall(conv, j) ==
  \E l \in 1..(j - 1) :
    /\ conv[l].role = "assistant"
    /\ \E c \in 1..Len(conv[l].tool_calls) : conv[l].tool_calls[c] = conv[j].tool_call_id

\* C33: every tool message in the persisted conversation answers a tool
\* call of an assistant tool_calls message that appears earlier in that
\* same conversation.
C33_ToolMessagesAnswered ==
  \A j \in 1..Len(conversation) :
    conversation[j].role = "tool" => AnswersEarlierCall(conversation, j)

\* the same for the serial loop alone
SerialToolMessagesAnswered == variant = "serial" => C33_ToolMessagesAnswered


(***************************************************************************)
(* Properties of the skip and error counts                                 *)
(***************************************************************************)

\* C34: in every reachable state, under any interleaving of concurrent
\* generate calls, the recorded skip count of a model never exceeds its
\* recorded error count.
C34_SkipsWithinErrors == health.skip <= health.error

\* the same for the client of llm.js alone
MapSkipsWithinErrors == gateClient = "map" => C34_SkipsWithinErrors


(***************************************************************************)
(* Properties of the sub-actions of a loop                                 *)
(***************************************************************************)

\* C36: at any moment at most one sub-action started by a multi-turn loop
\* is still running: a sub-action that timed out has been cancelled before
\* the loop starts its next model call or tool call.
C36_OneSubActionRunning ==
  /\ sRunning <= 1
  /\ spc = "model" => sRunning = 0

\* the same for the loops that put no timer around a sub-action
UntimedOneSubActionRunning == sVariant # "serial" => C36_OneSubActionRunning


(***************************************************************************)
(* Properties of recording an error                                        *)
(***************************************************************************)

\* the step records the error of a failed request in the counter client
ErrorRecorded ==
  /\ client = "counter"
  /\ Len(attempts') = Len(attempts) + 1
  /\ ~attempts'[Len(attempts')].ok

\* the model whose request failed in the step
FailedModel == attempts'[Len(attempts')].model

RequestsTo(m, pass) ==
  {j \in 1..Len(attempts) : attempts[j].model = m /\ attempts[j].pass = pass}

\* no request of the primary pass of the current call succeeded
NoPrimarySuccess ==
  \A j \in 1..Len(attempts) : attempts[j].pass = "primary" => ~attempts[j].ok

\* C38: within one generate call each configured model entry is sent at
\* most one request in the primary pass and at most one in the fallback
\* pass, and the fallback pass starts only if no request of the primary
\* pass succeeded.
C38_OneRequestPerPass ==
  /\ \A m \in AllModels, pass \in {"primary", "fallback"} :
       Cardinality(RequestsTo(m, pass)) <= 1
  /\ (gpc = "fallback" \/ \E j \in 1..Len(attempts) : attempts[j].pass = "fallback")
       => NoPrimarySuccess

\* C38 witness: a call has sent one model a request in each pass, and has
\* sent another model a request in the fallback pass
C38_Witness ==
  \E m \in AllModels :
    /\ Cardinality(RequestsTo(m, "primary")) = 1
    /\ Cardinality(RequestsTo(m, "fallback")) = 1
    /\ \E m2 \in AllModels \ {m} : Cardinality(RequestsTo(m2, "fallback")) = 1


(***************************************************************************)
(* Properties of the requests of the side panel                            *)
(***************************************************************************)

\* C39: at most one processMessage request from the side panel is in
\* flight at a time: while a sent message is awaiting its response, no
\* second message can be sent by any input path.
C39_OneRequestInFlight == inFlight <= 1


(***************************************************************************)
(* Properties of the length of the conversation                            *)
(***************************************************************************)

\* a model call of a tool-call loop is about to be made
AtModelCall == ToolLoop /\ pc = "turn" /\ i < max_iterations

\* C40: at the start of every model call in a multi-turn loop the persisted
\* conversation holds at most 12 messages, for any sequence of model
\* responses.
C40_AtMostTwelveAtModelCall == AtModelCall => Len(conversation) <= 12

\* the same bound where it does hold: after an iteration that executed a
\* tool call, the only iterations that end with the pruning statement
AtMostTwelveAfterToolTurn ==
  [][(ToolLoop /\ pc = "turn" /\ toolRuns' > toolRuns) => Len(conversation') <= 12]_vars

====
